---------------------------- MODULE Spec2Model ----------------------------
(***************************************************************************)
(* files-multitool: the orchestrator (FilesMultitool, src/src/index.ts),   *)
(* the generic copy/move of BaseAdaptor (src/src/base.ts), the record-store *)
(* backend (IndexedDBAdaptor) and the handle-cache backend (FSAAdaptor).    *)
(*                                                                         *)
(* A JavaScript string is a sequence of tokens: the separator "/" and       *)
(* atomic names ("a", "x.t", ...).  Optional values (null, undefined) are   *)
(* sequences of length 0 or 1: <<>> is null/undefined, <<v>> is the value v.*)
(***************************************************************************)
EXTENDS Integers, Sequences, FiniteSets, TLC

--------------------------------------------------------------------------
(* Strings *)

SEP == "/"

\* names whose text contains the character '.'
DotTokens == {"x.t", "y.t", "..", "x..t"}

\* names whose text contains the substring '..': the parent segment and a
\* file name with two dots in a row
DotDotTokens == {"..", "x..t"}

\* code-unit order of the tokens ('/' is 0x2F, below every letter, and '.'
\* is 0x2E)
TokenRank(t) ==
  CASE t = SEP    -> 0
    [] t = ".."   -> 1
    [] t = "a"    -> 2
    [] t = "b"    -> 3
    [] t = "s"    -> 4
    [] t = "x..t" -> 5
    [] t = "x.t"  -> 6
    [] t = "y.t"  -> 7
    [] OTHER      -> 8

\* s < t as JavaScript strings (the order of IndexedDB keys)
RECURSIVE StrLess(_, _)
StrLess(s, t) ==
  IF Len(t) = 0 THEN FALSE
  ELSE IF Len(s) = 0 THEN TRUE
  ELSE IF s[1] # t[1] THEN TokenRank(s[1]) < TokenRank(t[1])
  ELSE StrLess(Tail(s), Tail(t))

includesDot(s) == \E i \in 1..Len(s) : s[i] \in DotTokens

includesDotDot(s) == \E i \in 1..Len(s) : s[i] \in DotDotTokens

endsWithSep(s) == Len(s) > 0 /\ s[Len(s)] = SEP

\* String.prototype.split('/')
RECURSIVE split(_)
split(s) ==
  IF \A i \in 1..Len(s) : s[i] # SEP THEN <<s>>
  ELSE LET k == CHOOSE i \in 1..Len(s) :
                  s[i] = SEP /\ \A j \in 1..(i - 1) : s[j] # SEP
       IN <<SubSeq(s, 1, k - 1)>> \o split(SubSeq(s, k + 1, Len(s)))

\* Array.prototype.join('/')
RECURSIVE join(_)
join(parts) ==
  IF Len(parts) = 0 THEN <<>>
  ELSE IF Len(parts) = 1 THEN parts[1]
  ELSE parts[1] \o <<SEP>> \o join(Tail(parts))

\* Array.prototype.slice(0, -1)
dropLast(parts) == SubSeq(parts, 1, Len(parts) - 1)

\* Array.prototype.pop() on the result of split, which is never empty
pop(parts) == parts[Len(parts)]

\* Array.prototype.filter(v => v) on an array of strings
RECURSIVE filterTruthy(_)
filterTruthy(parts) ==
  IF Len(parts) = 0 THEN <<>>
  ELSE IF Len(parts[1]) = 0 THEN filterTruthy(Tail(parts))
  ELSE <<parts[1]>> \o filterTruthy(Tail(parts))

\* .replace(/^\//, '')
stripLeadingSep(s) == IF Len(s) > 0 /\ s[1] = SEP THEN Tail(s) ELSE s

\* .replace(/\/$/, '')
stripTrailingSep(s) == IF endsWithSep(s) THEN SubSeq(s, 1, Len(s) - 1) ELSE s

\* .replace(/(^\/)|(\/$)/g, '')
stripEnds(s) == stripTrailingSep(stripLeadingSep(s))

\* .replace(/\/+/g, '/')
RECURSIVE collapseSeps(_)
collapseSeps(s) ==
  IF Len(s) < 2 THEN s
  ELSE IF s[1] = SEP /\ s[2] = SEP THEN collapseSeps(Tail(s))
  ELSE <<s[1]>> \o collapseSeps(Tail(s))

\* path.split('/').slice(0, -1).join('/')
dirnameOf(path) == join(dropLast(split(path)))

\* path.split('/').pop()
basenameOf(path) == pop(split(path))

\* p is q or an ancestor of q, segment-wise
IsPrefixPath(p, q) ==
  LET ps == filterTruthy(split(p))
      qs == filterTruthy(split(q))
  IN Len(ps) <= Len(qs) /\ SubSeq(qs, 1, Len(ps)) = ps

IsProperPrefixPath(p, q) == IsPrefixPath(p, q) /\ stripEnds(p) # stripEnds(q)

--------------------------------------------------------------------------
(* Buffers and encodings.  A Buffer is a sequence of bytes 0..255; a         *)
(* base64 string is a sequence of sextets 0..63 with 64 for the pad '='; a   *)
(* decoded text is a sequence of code points.                                *)

B64Pad == 64

\* Buffer.prototype.toString('base64')
RECURSIVE toBase64(_)
toBase64(buf) ==
  IF Len(buf) = 0 THEN <<>>
  ELSE IF Len(buf) = 1 THEN
    <<buf[1] \div 4, (buf[1] % 4) * 16, B64Pad, B64Pad>>
  ELSE IF Len(buf) = 2 THEN
    <<buf[1] \div 4, ((buf[1] % 4) * 16) + (buf[2] \div 16), (buf[2] % 16) * 4, B64Pad>>
  ELSE
    <<buf[1] \div 4, ((buf[1] % 4) * 16) + (buf[2] \div 16),
      ((buf[2] % 16) * 4) + (buf[3] \div 64), buf[3] % 64>>
    \o toBase64(SubSeq(buf, 4, Len(buf)))

\* Buffer.from(str, 'base64'): decoding stops at the first pad
RECURSIVE fromBase64(_)
fromBase64(str) ==
  IF Len(str) < 2 \/ str[1] = B64Pad \/ str[2] = B64Pad THEN <<>>
  ELSE LET b1 == (str[1] * 4) + (str[2] \div 16)
       IN IF Len(str) < 3 \/ str[3] = B64Pad THEN <<b1>>
          ELSE LET b2 == ((str[2] % 16) * 16) + (str[3] \div 4)
               IN IF Len(str) < 4 \/ str[4] = B64Pad THEN <<b1, b2>>
                  ELSE <<b1, b2, ((str[3] % 4) * 64) + str[4]>>
                       \o fromBase64(SubSeq(str, 5, Len(str)))

ReplacementChar == 65533

isContinuation(b) == b >= 128 /\ b <= 191

\* Buffer.prototype.toString('utf-8') for buffers without three- and
\* four-byte lead bytes (0xE0..0xF7): an ill-formed byte decodes to U+FFFD
RECURSIVE utf8Decode(_)
utf8Decode(buf) ==
  IF Len(buf) = 0 THEN <<>>
  ELSE IF buf[1] < 128 THEN <<buf[1]>> \o utf8Decode(Tail(buf))
  ELSE IF buf[1] >= 194 /\ buf[1] <= 223 /\ Len(buf) >= 2 /\ isContinuation(buf[2])
    THEN <<((buf[1] - 192) * 64) + (buf[2] - 128)>> \o utf8Decode(SubSeq(buf, 3, Len(buf)))
  ELSE <<ReplacementChar>> \o utf8Decode(Tail(buf))

\* Buffer.from(str, 'utf-8') for code points of the basic plane
RECURSIVE utf8Encode(_)
utf8Encode(str) ==
  IF Len(str) = 0 THEN <<>>
  ELSE (IF str[1] < 128 THEN <<str[1]>>
        ELSE IF str[1] < 2048 THEN <<192 + (str[1] \div 64), 128 + (str[1] % 64)>>
        ELSE <<224 + (str[1] \div 4096), 128 + ((str[1] \div 64) % 64), 128 + (str[1] % 64)>>)
       \o utf8Encode(Tail(str))

\* Buffer.prototype.toString('latin1'): one code unit per byte
latin1Decode(buf) == buf

\* Buffer.from(str, 'latin1'): the low byte of every code unit
latin1Encode(str) == [i \in 1..Len(str) |-> str[i] % 256]

\* Buffer.prototype.toString(encoding)
bufferToString(buf, encoding) ==
  IF encoding = "latin1" THEN latin1Decode(buf) ELSE utf8Decode(buf)

\* Buffer.from(str, encoding)
bufferFrom(str, encoding) ==
  IF encoding = "latin1" THEN latin1Encode(str) ELSE utf8Encode(str)

--------------------------------------------------------------------------
(* Results of a call on an adaptor: err is "" when the call returned and    *)
(* the error message when it threw; S is the adaptor's state afterwards     *)
(* (also when it threw), val is the value returned.                         *)

NoErr == ""

\* the promise never settles
Hang == "<hang>"

Ok(S, val) == [err |-> NoErr, S |-> S, val |-> val]

Throw(S, msg) == [err |-> msg, S |-> S, val |-> <<>>]

\* await: the rest of the method, a function of the settled result, applied to it
Await(rest) == rest[CHOOSE r \in DOMAIN rest : TRUE]

\* an ordered map (a JavaScript object with string keys): a sequence of
\* <<key, value>> pairs with distinct keys, in insertion order
MapKeys(m) == [i \in 1..Len(m) |-> m[i][1]]

MapHas(m, k) == \E i \in 1..Len(m) : m[i][1] = k

MapGet(m, k) == m[CHOOSE i \in 1..Len(m) : m[i][1] = k][2]

MapSet(m, k, v) ==
  IF MapHas(m, k) THEN [i \in 1..Len(m) |-> IF m[i][1] = k THEN <<k, v>> ELSE m[i]]
  ELSE Append(m, <<k, v>>)

\* Object.assign(m, n)
RECURSIVE MapAssign(_, _)
MapAssign(m, n) ==
  IF Len(n) = 0 THEN m ELSE MapAssign(MapSet(m, n[1][1], n[1][2]), Tail(n))

--------------------------------------------------------------------------
(* IndexedDBAdaptor: the record store.  db is the object store 'files', a   *)
(* function from the primary key (path) to the record.                      *)

\* the keys of a set of strings in ascending key order
RECURSIVE SortKeys(_)
SortKeys(keys) ==
  IF keys = {} THEN <<>>
  ELSE LET m == CHOOSE x \in keys : \A y \in keys \ {x} : StrLess(x, y)
       IN <<m>> \o SortKeys(keys \ {m})

IDB_convertFileStat(stat) ==
  [path |-> stat.path, parentPath |-> stat.parentPath,
   isDirectory |-> stat.isDirectory, isFile |-> stat.isFile, size |-> stat.size,
   modifiedTime |-> stat.modifiedTime, createdTime |-> stat.createdTime]

IDB_getItem(db, path) == IF path \in DOMAIN db THEN <<db[path]>> ELSE <<>>

IDB_removeItem(db, path) == [k \in DOMAIN db \ {path} |-> db[k]]

\* IDBObjectStore.put: insert or replace by primary key
IDB_storePut(db, rec) ==
  [k \in DOMAIN db \cup {rec.path} |-> IF k = rec.path THEN rec ELSE db[k]]

IDB_isDeleted(item) == item # <<>> /\ item[1].deletedAt # <<>>

\* a put that merges into the stored record whatever it is, marker included
IDB_putItem_mergesTombstone(db, stat) ==
  LET existing == IDB_getItem(db, stat.path)
  IN IF existing # <<>>
       THEN IDB_storePut(db, [stat EXCEPT !.createdTime = existing[1].createdTime,
                                          !.deletedAt = IF stat.deletedAt # <<>>
                                                          THEN stat.deletedAt
                                                        ELSE existing[1].deletedAt])
     ELSE IDB_storePut(db, stat)

IDB_putItem(db, stat) ==
  LET existing == IDB_getItem(db, stat.path)
  IN IF IDB_isDeleted(existing)
       THEN IDB_storePut(IDB_removeItem(db, stat.path), stat)
     ELSE IF existing # <<>>
       THEN IDB_storePut(db, [stat EXCEPT !.createdTime = existing[1].createdTime])
     ELSE IDB_storePut(db, stat)

\* index('parentPath').getAll(path): the records with that parentPath, by key
IDB_listItems(db, path) ==
  LET keys == SortKeys({k \in DOMAIN db : db[k].parentPath = path})
  IN [i \in 1..Len(keys) |-> db[keys[i]]]

\* a stat that does not look at the deletion marker
IDB_stat_ignoresMarker(db, path) ==
  LET stat == IDB_getItem(db, path)
  IN IF stat = <<>> THEN <<>> ELSE <<IDB_convertFileStat(stat[1])>>

IDB_stat(db, path) ==
  LET stat == IDB_getItem(db, path)
  IN IF stat = <<>> \/ IDB_isDeleted(stat) THEN <<>>
     ELSE <<IDB_convertFileStat(stat[1])>>

IDB_readFile(db, path) ==
  LET stat == IDB_getItem(db, path)
  IN IF stat = <<>> \/ IDB_isDeleted(stat) THEN Throw(db, "File not found.")
     ELSE IF stat[1].isDirectory THEN Throw(db, "Cannot read a directory.")
     ELSE Ok(db, fromBase64(IF stat[1].content = <<>> THEN <<>> ELSE stat[1].content[1]))

IDB_writeFile(db, path, content, now) ==
  Ok(IDB_putItem(db,
       [path |-> path, parentPath |-> stripEnds(dirnameOf(path)),
        isDirectory |-> FALSE, isFile |-> TRUE, size |-> Len(content),
        modifiedTime |-> <<now>>, createdTime |-> <<now>>,
        content |-> <<toBase64(content)>>, deletedAt |-> <<>>]), <<>>)

\* request.onerror: the request of _getItem for the key named by fault is
\* rejected by the store (the transaction aborts)
IDB_requestFails(path, fault) == fault = <<path>>

IDB_deleteFile(db, path, now, fault) ==
  LET stat == IDB_getItem(db, path)
  IN IF IDB_requestFails(path, fault) THEN Throw(db, "AbortError")
     ELSE IF stat = <<>> \/ IDB_isDeleted(stat) THEN Throw(db, "File not found.")
     ELSE Ok(IDB_putItem(db, [stat[1] EXCEPT !.deletedAt = <<now>>]), <<>>)

\* a list that does not skip the records with a deletion marker
IDB_list_keepsDeleted(db, path) ==
  LET items == IDB_listItems(db, path)
  IN Ok(db, [i \in 1..Len(items) |-> <<items[i].path, IDB_convertFileStat(items[i])>>])

IDB_list(db, path) ==
  LET items == IDB_listItems(db, path)
      live == SelectSeq(items, LAMBDA item : item.deletedAt = <<>>)
  IN Ok(db, [i \in 1..Len(live) |-> <<live[i].path, IDB_convertFileStat(live[i])>>])

RECURSIVE IDB_mkdirParts(_, _, _, _)
IDB_mkdirParts(db, parts, i, now) ==
  IF i > Len(parts) THEN db
  ELSE LET partPath == join(SubSeq(parts, 1, i))
           stat == IDB_getItem(db, partPath)
       IN IF stat = <<>> \/ IDB_isDeleted(stat)
            THEN IDB_mkdirParts(
                   IDB_putItem(db,
                     [path |-> partPath, parentPath |-> stripEnds(dirnameOf(partPath)),
                      isDirectory |-> TRUE, isFile |-> FALSE, size |-> 0,
                      modifiedTime |-> <<now>>, createdTime |-> <<now>>,
                      content |-> <<>>, deletedAt |-> <<>>]),
                   parts, i + 1, now)
          ELSE IDB_mkdirParts(db, parts, i + 1, now)

IDB_mkdir(db, path, now) == Ok(IDB_mkdirParts(db, split(stripEnds(path)), 1, now), <<>>)

joinPath(path, fileName) ==
  join(filterTruthy(<<stripTrailingSep(path), stripLeadingSep(fileName)>>))

RECURSIVE IDB_rmdir(_, _, _, _)
RECURSIVE IDB_rmdirItems(_, _, _, _, _, _)
\* the loop of rmdir over the items listed before it started
IDB_rmdirItems(db, path, items, i, now, fault) ==
  IF i > Len(items) THEN Ok(db, <<>>)
  ELSE IF items[i].deletedAt # <<>> THEN IDB_rmdirItems(db, path, items, i + 1, now, fault)
  ELSE LET itemPath == joinPath(path, basenameOf(items[i].path))
       IN Await([r \in {IF items[i].isDirectory
                          THEN (IF itemPath = path THEN Throw(db, Hang)
                                ELSE IDB_rmdir(db, itemPath, now, fault))
                        ELSE IDB_deleteFile(db, itemPath, now, fault)} |->
            IF r.err # NoErr THEN r
            ELSE IDB_rmdirItems(r.S, path, items, i + 1, now, fault)])

\* rmdir of a directory that lists itself (the record of the root path '')
\* calls itself with the same argument on the same store, without end
IDB_rmdir(db, path, now, fault) ==
  LET stat == IDB_getItem(db, path)
  IN IF IDB_requestFails(path, fault) THEN Throw(db, "AbortError")
     ELSE IF stat = <<>> \/ IDB_isDeleted(stat) THEN Throw(db, "Directory not found.")
     ELSE Await([r \in {IDB_rmdirItems(db, path, IDB_listItems(db, path), 1, now, fault)} |->
       IF r.err # NoErr THEN r
       ELSE Ok(IDB_putItem(r.S, [stat[1] EXCEPT !.deletedAt = <<now>>]), <<>>)])

IDB_copyFile(db, path, targetPath, newFileName) ==
  LET stat == IDB_getItem(db, path)
  IN IF stat = <<>> \/ IDB_isDeleted(stat) THEN Throw(db, "File not found.")
     ELSE LET fileName == IF newFileName # <<>> /\ newFileName[1] # <<>>
                            THEN newFileName[1] ELSE basenameOf(stat[1].path)
          IN Ok(IDB_putItem(db, [stat[1] EXCEPT !.path = joinPath(targetPath, fileName),
                                                !.parentPath = targetPath]), <<>>)

RECURSIVE IDB_copyDirectory(_, _, _, _, _)
RECURSIVE IDB_copyDirectoryItems(_, _, _, _, _, _, _)
IDB_copyDirectoryItems(db, path, newPath, recursive, items, i, now) ==
  IF i > Len(items) THEN Ok(db, <<>>)
  ELSE IF items[i].deletedAt # <<>>
    THEN IDB_copyDirectoryItems(db, path, newPath, recursive, items, i + 1, now)
  ELSE LET itemPath == joinPath(path, basenameOf(items[i].path))
           newItemPath == joinPath(newPath, basenameOf(items[i].path))
       IN Await([r \in {IF items[i].isDirectory /\ recursive
                          THEN (IF itemPath = path /\ newItemPath = newPath
                                  THEN Throw(db, Hang)
                                ELSE IDB_copyDirectory(db, itemPath, newItemPath, recursive,
                                                       now))
                        ELSE IF items[i].isFile THEN IDB_copyFile(db, itemPath, newPath, <<>>)
                        ELSE Ok(db, <<>>)} |->
            IF r.err # NoErr THEN r
            ELSE IDB_copyDirectoryItems(r.S, path, newPath, recursive, items, i + 1, now)])

IDB_copyDirectory(db, path, newPath, recursive, now) ==
  LET stat == IDB_getItem(db, path)
  IN IF stat = <<>> \/ IDB_isDeleted(stat) THEN Throw(db, "Directory not found.")
     ELSE Await([items \in {IDB_listItems(db, path)} |->
       Await([made \in {IDB_mkdir(db, newPath, now)} |->
         IDB_copyDirectoryItems(made.S, path, newPath, recursive, items, 1, now)])])

--------------------------------------------------------------------------
(* The File System Access API under FSAAdaptor.  fs is the granted directory: *)
(* a function from a location (the sequence of entry names below the root)   *)
(* to the entry [kind, data, lastModified]; the root <<>> always exists.     *)
(* A handle is [kind, loc, slot]: slot is <<key>> when the handle object is  *)
(* the one stored in pathCache[key] and <<>> for an object held nowhere.     *)

RootHandle == [kind |-> "directory", loc |-> <<>>, slot |-> <<>>]

\* a copy of a directory into itself descends without end; the descent is
\* followed to this depth
MaxNativeDepth == 6

NativeIsDirectory(fs, loc) ==
  loc = <<>> \/ (loc \in DOMAIN fs /\ fs[loc].kind = "directory")

NativeIsFile(fs, loc) == loc \in DOMAIN fs /\ fs[loc].kind = "file"

NativeValidName(name) ==
  /\ name # <<>>
  /\ ~includesDotDot(name)
  /\ \A i \in 1..Len(name) : name[i] # SEP

NativeCreate(fs, loc, entry) ==
  [l \in DOMAIN fs \cup {loc} |-> IF l = loc THEN entry ELSE fs[l]]

NativeUnder(loc, l) == Len(l) >= Len(loc) /\ SubSeq(l, 1, Len(loc)) = loc

NativeChildren(fs, loc) ==
  {l \in DOMAIN fs : Len(l) = Len(loc) + 1 /\ NativeUnder(loc, l)}

\* FileSystemDirectoryHandle.getDirectoryHandle(name, { create })
Native_getDirectoryHandle(fs, h, name, create) ==
  LET child == Append(h.loc, name)
  IN IF h.kind # "directory" \/ ~NativeValidName(name) THEN Throw(fs, "TypeError")
     ELSE IF ~NativeIsDirectory(fs, h.loc) THEN Throw(fs, "NotFoundError")
     ELSE IF NativeIsDirectory(fs, child)
       THEN Ok(fs, [kind |-> "directory", loc |-> child, slot |-> <<>>])
     ELSE IF NativeIsFile(fs, child) THEN Throw(fs, "TypeMismatchError")
     ELSE IF create
       THEN Ok(NativeCreate(fs, child, [kind |-> "directory", data |-> <<>>, lastModified |-> 0]),
               [kind |-> "directory", loc |-> child, slot |-> <<>>])
     ELSE Throw(fs, "NotFoundError")

\* FileSystemDirectoryHandle.getFileHandle(name, { create })
Native_getFileHandle(fs, h, name, create, now) ==
  LET child == Append(h.loc, name)
  IN IF h.kind # "directory" \/ ~NativeValidName(name) THEN Throw(fs, "TypeError")
     ELSE IF ~NativeIsDirectory(fs, h.loc) THEN Throw(fs, "NotFoundError")
     ELSE IF NativeIsFile(fs, child)
       THEN Ok(fs, [kind |-> "file", loc |-> child, slot |-> <<>>])
     ELSE IF NativeIsDirectory(fs, child) THEN Throw(fs, "TypeMismatchError")
     ELSE IF create
       THEN Ok(NativeCreate(fs, child, [kind |-> "file", data |-> <<>>, lastModified |-> now]),
               [kind |-> "file", loc |-> child, slot |-> <<>>])
     ELSE Throw(fs, "NotFoundError")

\* FileSystemDirectoryHandle.removeEntry(name, { recursive })
Native_removeEntry(fs, h, name, recursive) ==
  LET child == Append(h.loc, name)
  IN IF h.kind # "directory" \/ ~NativeValidName(name) THEN Throw(fs, "TypeError")
     ELSE IF ~NativeIsDirectory(fs, h.loc) \/ child \notin DOMAIN fs
       THEN Throw(fs, "NotFoundError")
     ELSE IF ~recursive /\ NativeChildren(fs, child) # {}
       THEN Throw(fs, "InvalidModificationError")
     ELSE Ok([l \in {m \in DOMAIN fs : ~NativeUnder(child, m)} |-> fs[l]], <<>>)

\* FileSystemDirectoryHandle.entries(), collected: <<name, handle>> pairs in
\* name order (the API leaves the order to the implementation)
Native_entries(fs, h) ==
  IF h.kind # "directory" THEN Throw(fs, "TypeError")
  ELSE IF ~NativeIsDirectory(fs, h.loc) THEN Throw(fs, "NotFoundError")
  ELSE LET names == SortKeys({l[Len(l)] : l \in NativeChildren(fs, h.loc)})
       IN Ok(fs, [i \in 1..Len(names) |->
                    <<names[i], [kind |-> fs[Append(h.loc, names[i])].kind,
                                 loc |-> Append(h.loc, names[i]), slot |-> <<>>]>>])

\* FileSystemFileHandle.getFile(): a File, the snapshot of the entry
Native_getFile(fs, h) ==
  IF h.kind # "file" THEN Throw(fs, "TypeError")
  ELSE IF ~NativeIsFile(fs, h.loc) THEN Throw(fs, "NotFoundError")
  ELSE Ok(fs, [loc |-> h.loc, data |-> fs[h.loc].data, lastModified |-> fs[h.loc].lastModified])

\* createWritable(), write(data), close() on a file handle
Native_write(fs, h, data, now) ==
  IF h.kind # "file" THEN Throw(fs, "TypeError")
  ELSE IF ~NativeIsFile(fs, h.loc) THEN Throw(fs, "NotFoundError")
  ELSE Ok([fs EXCEPT ![h.loc] = [kind |-> "file", data |-> data, lastModified |-> now]], <<>>)

\* a File whose entry changed or went away since the snapshot was taken
FileIsStale(fs, file) ==
  ~NativeIsFile(fs, file.loc) \/ fs[file.loc].lastModified # file.lastModified
    \/ fs[file.loc].data # file.data

\* reading a File (arrayBuffer(), or as the source of a write): a stale File
\* yields the snapshot's bytes or fails, as the browser decides (onStale)
File_read(fs, file, onStale) ==
  IF FileIsStale(fs, file) /\ onStale = "error" THEN Throw(fs, "NotReadableError")
  ELSE Ok(fs, file.data)

--------------------------------------------------------------------------
(* FSAAdaptor.  S is [type, root, fs, pathCache, fileCache]: root is TRUE   *)
(* when the root handle is held; pathCache maps a path to a handle;         *)
(* fileCache maps the slot of a handle object to the File cached for it     *)
(* (an item whose handle object is held nowhere can never be found again    *)
(* and is not kept).                                                        *)

FSA_lift(S, r) == [err |-> r.err, S |-> [S EXCEPT !.fs = r.S], val |-> r.val]

\* this.pathCache[path] = handle
FSA_cachePut(S, path, handle) ==
  [S EXCEPT !.pathCache = [k \in DOMAIN S.pathCache \cup {path} |->
                             IF k = path THEN [handle EXCEPT !.slot = <<path>>]
                             ELSE S.pathCache[k]],
            !.fileCache = [k \in DOMAIN S.fileCache \ {path} |-> S.fileCache[k]]]

FSA_isCachedObject(S, handle) ==
  /\ handle.slot # <<>>
  /\ handle.slot[1] \in DOMAIN S.pathCache
  /\ S.pathCache[handle.slot[1]] = handle

FSA_getFile(S, handle) ==
  IF FSA_isCachedObject(S, handle) /\ handle.slot[1] \in DOMAIN S.fileCache
    THEN Ok(S, S.fileCache[handle.slot[1]])
  ELSE Await([r \in {Native_getFile(S.fs, handle)} |->
    IF r.err # NoErr THEN Throw(S, r.err)
    ELSE IF FSA_isCachedObject(S, handle)
      THEN Ok([S EXCEPT !.fileCache =
                 [k \in DOMAIN S.fileCache \cup {handle.slot[1]} |->
                    IF k = handle.slot[1] THEN r.val ELSE S.fileCache[k]]], r.val)
    ELSE Ok(S, r.val)])

\* _purgeCache(path)
FSA_purgeCachePath(S, path) ==
  [S EXCEPT !.pathCache = [k \in DOMAIN S.pathCache \ {path} |-> S.pathCache[k]],
            !.fileCache = [k \in DOMAIN S.fileCache \ {path} |-> S.fileCache[k]]]

\* _purgeCache(handle): the item is found by the identity of the handle object
FSA_purgeCacheHandle(S, handle) ==
  IF FSA_isCachedObject(S, handle)
    THEN [S EXCEPT !.fileCache = [k \in DOMAIN S.fileCache \ {handle.slot[1]} |-> S.fileCache[k]]]
  ELSE S

\* _purgeCache()
FSA_purgeCacheAll(S) == [S EXCEPT !.pathCache = <<>>, !.fileCache = <<>>]

\* the loop of _getParentHandle over parts[i .. n]
RECURSIVE FSA_walk(_, _, _, _, _, _)
FSA_walk(fs, handle, parts, i, n, create) ==
  IF i > n THEN Ok(fs, handle)
  ELSE Await([r \in {Native_getDirectoryHandle(fs, handle, parts[i], create)} |->
    IF r.err # NoErr THEN r ELSE FSA_walk(r.S, r.val, parts, i + 1, n, create)])

FSA_getParentHandle(S, path, create) ==
  IF ~S.root THEN Throw(S, "Adaptor not initialized")
  ELSE IF path = <<>> THEN Ok(S, RootHandle)
  ELSE IF path \in DOMAIN S.pathCache THEN Ok(S, S.pathCache[path])
  ELSE LET parts == split(path)
       IN Await([w \in {FSA_lift(S, FSA_walk(S.fs, RootHandle, parts, 1, Len(parts) - 1,
                                            create))} |->
            IF w.err # NoErr THEN w
            ELSE Ok(FSA_cachePut(w.S, path, w.val), [w.val EXCEPT !.slot = <<path>>])])

FSA_getPathHandle(S, path, create, now) ==
  IF ~S.root THEN Throw(S, "Adaptor not initialized")
  ELSE IF path = <<>> THEN Ok(S, RootHandle)
  ELSE IF path \in DOMAIN S.pathCache THEN Ok(S, S.pathCache[path])
  ELSE LET subject == basenameOf(path)
       IN Await([parent \in {FSA_getParentHandle(S, path, create)} |->
            IF parent.err # NoErr THEN parent
            ELSE Await([e \in {Native_entries(parent.S.fs, parent.val)} |->
              IF e.err # NoErr THEN Throw(parent.S, e.err)
              ELSE IF \E i \in 1..Len(e.val) : e.val[i][1] = subject
                THEN Await([value \in {e.val[CHOOSE i \in 1..Len(e.val) :
                                               e.val[i][1] = subject][2]} |->
                  Ok(FSA_cachePut(parent.S, path, value), [value EXCEPT !.slot = <<path>>])])
              ELSE IF create
                THEN Await([h \in {IF includesDot(subject)
                                     THEN FSA_lift(parent.S,
                                            Native_getFileHandle(parent.S.fs, parent.val,
                                                                 subject, create, now))
                                   ELSE FSA_lift(parent.S,
                                          Native_getDirectoryHandle(parent.S.fs, parent.val,
                                                                    subject, create))} |->
                  IF h.err # NoErr THEN h
                  ELSE Ok(FSA_cachePut(h.S, path, h.val), [h.val EXCEPT !.slot = <<path>>])])
              ELSE Throw(parent.S, "Path not found")])])

FSA_getHandleStat(S, path, handle) ==
  IF handle.kind = "directory"
    THEN Ok(S, [path |-> path, parentPath |-> dirnameOf(path),
                isDirectory |-> TRUE, isFile |-> FALSE, size |-> 0,
                modifiedTime |-> <<>>, createdTime |-> <<>>])
  ELSE Await([f \in {FSA_getFile(S, handle)} |->
    IF f.err # NoErr THEN f
    ELSE Ok(f.S, [path |-> path, parentPath |-> dirnameOf(path),
                  isDirectory |-> FALSE, isFile |-> TRUE, size |-> Len(f.val.data),
                  modifiedTime |-> <<f.val.lastModified>>,
                  createdTime |-> <<f.val.lastModified>>])])

\* the try block covers _getPathHandle only: the promise of _getHandleStat is
\* returned without await, so its rejection is not caught
FSA_stat(S, path, now) ==
  Await([h \in {FSA_getPathHandle(S, path, FALSE, now)} |->
    IF h.err \in {"NotFoundError", "Path not found"} THEN Ok(h.S, <<>>)
    ELSE IF h.err # NoErr THEN h
    ELSE Await([st \in {FSA_getHandleStat(h.S, path, h.val)} |->
      IF st.err # NoErr THEN st ELSE Ok(st.S, <<st.val>>)])])

FSA_readFile(S, path, now, onStale) ==
  Await([h \in {FSA_getPathHandle(S, path, FALSE, now)} |->
    IF h.err # NoErr THEN h
    ELSE IF h.val.kind # "file" THEN Throw(h.S, "Not a file")
    ELSE Await([f \in {FSA_getFile(h.S, h.val)} |->
      IF f.err # NoErr THEN f
      ELSE Await([b \in {File_read(f.S.fs, f.val, onStale)} |->
        IF b.err # NoErr THEN Throw(f.S, b.err) ELSE Ok(f.S, b.val)])])])

FSA_writeFile(S, path, data, now) ==
  Await([parent \in {FSA_getParentHandle(S, path, FALSE)} |->
    IF parent.err # NoErr THEN parent
    ELSE Await([file \in {FSA_lift(parent.S,
                            Native_getFileHandle(parent.S.fs, parent.val, basenameOf(path),
                                                 TRUE, now))} |->
      IF file.err # NoErr THEN file
      ELSE Await([w \in {FSA_lift(file.S, Native_write(file.S.fs, file.val, data, now))} |->
        IF w.err # NoErr THEN w
        ELSE Ok(FSA_purgeCacheHandle(w.S, file.val), <<>>)])])])

\* removeEntry of the entry named by fault is refused by the file system
FSA_removeFails(path, fault) == fault = <<path>>

FSA_deleteFile(S, path, now, fault) ==
  LET fileName == basenameOf(path)
  IN Await([parent \in {FSA_getParentHandle(S, path, FALSE)} |->
       IF parent.err # NoErr THEN parent
       ELSE Await([handle \in {Native_getFileHandle(parent.S.fs, parent.val, fileName,
                                                    FALSE, now)} |->
         Await([S1 \in {IF handle.err # NoErr THEN parent.S
                        ELSE FSA_purgeCachePath(FSA_purgeCacheHandle(parent.S, handle.val),
                                                path)} |->
           IF FSA_removeFails(path, fault) THEN Throw(S1, "NoModificationAllowedError")
           ELSE FSA_lift(S1, Native_removeEntry(S1.fs, parent.val, fileName, FALSE))])])])

RECURSIVE FSA_listEntries(_, _, _, _, _)
FSA_listEntries(S, path, entries, i, map) ==
  IF i > Len(entries) THEN Ok(S, map)
  ELSE LET fullPath == join(<<path, entries[i][1]>>)
       IN Await([st \in {FSA_getHandleStat(S, fullPath, entries[i][2])} |->
            IF st.err # NoErr THEN st
            ELSE FSA_listEntries(st.S, path, entries, i + 1, MapSet(map, fullPath, st.val))])

FSA_list(S, path, now) ==
  Await([h \in {FSA_getPathHandle(S, path, FALSE, now)} |->
    IF h.err # NoErr THEN h
    ELSE IF h.val.kind # "directory" THEN Throw(h.S, "Not a directory")
    ELSE Await([e \in {Native_entries(h.S.fs, h.val)} |->
      IF e.err # NoErr THEN Throw(h.S, e.err)
      ELSE FSA_listEntries(h.S, path, e.val, 1, <<>>)])])

FSA_mkdir(S, path) ==
  Await([parent \in {FSA_getParentHandle(S, path, FALSE)} |->
    IF parent.err # NoErr THEN parent
    ELSE Await([d \in {FSA_lift(parent.S,
                         Native_getDirectoryHandle(parent.S.fs, parent.val, basenameOf(path),
                                                   TRUE))} |->
      IF d.err # NoErr THEN d ELSE Ok(d.S, <<>>)])])

FSA_rmdir(S, path, fault) ==
  Await([parent \in {FSA_getParentHandle(S, path, FALSE)} |->
    IF parent.err # NoErr THEN parent
    ELSE IF FSA_removeFails(path, fault) THEN Throw(parent.S, "NoModificationAllowedError")
    ELSE Await([r \in {FSA_lift(parent.S,
                         Native_removeEntry(parent.S.fs, parent.val, basenameOf(path),
                                            TRUE))} |->
      IF r.err # NoErr THEN r ELSE Ok(FSA_purgeCacheAll(r.S), <<>>)])])

\* FileSystemHandle.name
HandleName(handle) == IF handle.loc = <<>> THEN <<>> ELSE handle.loc[Len(handle.loc)]

FSA_copyFile(S, path, targetPath, newFileName, now, onStale) ==
  Await([source \in {FSA_getPathHandle(S, path, FALSE, now)} |->
    IF source.err # NoErr THEN source
    ELSE Await([destination \in {FSA_getPathHandle(source.S, targetPath, TRUE, now)} |->
      IF destination.err # NoErr THEN destination
      ELSE Await([file \in {FSA_getFile(destination.S, source.val)} |->
        IF file.err # NoErr THEN file
        ELSE Await([newFile \in {FSA_lift(file.S,
                                   Native_getFileHandle(file.S.fs, destination.val,
                                     IF newFileName # <<>> /\ newFileName[1] # <<>>
                                       THEN newFileName[1] ELSE HandleName(source.val),
                                     TRUE, now))} |->
          IF newFile.err # NoErr THEN newFile
          ELSE Await([data \in {File_read(newFile.S.fs, file.val, onStale)} |->
            IF data.err # NoErr THEN Throw(newFile.S, data.err)
            ELSE Await([w \in {FSA_lift(newFile.S,
                                 Native_write(newFile.S.fs, newFile.val, data.val, now))} |->
              IF w.err # NoErr THEN w
              ELSE Ok(FSA_purgeCacheHandle(w.S, newFile.val), <<>>)])])])])])])

RECURSIVE FSA_copyDirectory(_, _, _, _, _, _)
RECURSIVE FSA_copyDirectoryEntries(_, _, _, _, _, _, _, _)
FSA_copyDirectoryEntries(S, path, targetPath, recursive, entries, i, now, onStale) ==
  IF i > Len(entries) THEN Ok(S, <<>>)
  ELSE LET fullPath == join(<<path, entries[i][1]>>)
           fullTargetPath == join(<<targetPath, entries[i][1]>>)
       IN Await([r \in {IF entries[i][2].kind = "directory" /\ recursive
                          THEN FSA_copyDirectory(S, fullPath, fullTargetPath, recursive, now,
                                                 onStale)
                        ELSE IF entries[i][2].kind = "file"
                          THEN FSA_copyFile(S, fullPath, targetPath, <<>>, now, onStale)
                        ELSE Ok(S, <<>>)} |->
            IF r.err # NoErr THEN r
            ELSE FSA_copyDirectoryEntries(r.S, path, targetPath, recursive, entries, i + 1,
                                          now, onStale)])

\* the entries are those present when the iteration starts
FSA_copyDirectory(S, path, targetPath, recursive, now, onStale) ==
  IF Len(split(targetPath)) > MaxNativeDepth THEN Throw(S, Hang)
  ELSE Await([source \in {FSA_getPathHandle(S, path, FALSE, now)} |->
    IF source.err # NoErr THEN source
    ELSE Await([target \in {FSA_getPathHandle(source.S, targetPath, TRUE, now)} |->
      IF target.err # NoErr THEN target
      ELSE Await([e \in {Native_entries(target.S.fs, source.val)} |->
        IF e.err # NoErr THEN Throw(target.S, e.err)
        ELSE FSA_copyDirectoryEntries(target.S, path, targetPath, recursive,
                                      e.val, 1, now, onStale)])])])

--------------------------------------------------------------------------
(* The adaptor held by the orchestrator: S.type selects the implementation  *)
(* of each abstract method of BaseAdaptor.  env is [now, onStale, fault]:   *)
(* the clock read by new Date() during the call, the browser's answer when  *)
(* a stale File is read, and the path (if any) whose removal the substrate  *)
(* refuses during the call.                                                 *)

IDB_lift(S, r) == [err |-> r.err, S |-> [S EXCEPT !.db = r.S], val |-> r.val]

\* _getStore
IDB_notInitialized(S) == Throw(S, "Adaptor is not initialized.")

Adaptor_stat(S, path, env) ==
  IF S.type = "indexed-db"
    THEN (IF ~S.open THEN IDB_notInitialized(S) ELSE Ok(S, IDB_stat(S.db, path)))
  ELSE FSA_stat(S, path, env.now)

Adaptor_readFile(S, path, env) ==
  IF S.type = "indexed-db"
    THEN (IF ~S.open THEN IDB_notInitialized(S) ELSE IDB_lift(S, IDB_readFile(S.db, path)))
  ELSE FSA_readFile(S, path, env.now, env.onStale)

Adaptor_writeFile(S, path, data, env) ==
  IF S.type = "indexed-db"
    THEN (IF ~S.open THEN IDB_notInitialized(S)
          ELSE IDB_lift(S, IDB_writeFile(S.db, path, data, env.now)))
  ELSE FSA_writeFile(S, path, data, env.now)

Adaptor_deleteFile(S, path, env) ==
  IF S.type = "indexed-db"
    THEN (IF ~S.open THEN IDB_notInitialized(S)
          ELSE IDB_lift(S, IDB_deleteFile(S.db, path, env.now, env.fault)))
  ELSE FSA_deleteFile(S, path, env.now, env.fault)

Adaptor_list(S, path, env) ==
  IF S.type = "indexed-db"
    THEN (IF ~S.open THEN IDB_notInitialized(S) ELSE IDB_lift(S, IDB_list(S.db, path)))
  ELSE FSA_list(S, path, env.now)

Adaptor_mkdir(S, path, env) ==
  IF S.type = "indexed-db"
    THEN (IF ~S.open THEN IDB_notInitialized(S)
          ELSE IDB_lift(S, IDB_mkdir(S.db, path, env.now)))
  ELSE FSA_mkdir(S, path)

Adaptor_rmdir(S, path, env) ==
  IF S.type = "indexed-db"
    THEN (IF ~S.open THEN IDB_notInitialized(S)
          ELSE IDB_lift(S, IDB_rmdir(S.db, path, env.now, env.fault)))
  ELSE FSA_rmdir(S, path, env.fault)

Adaptor_copyFile(S, path, targetPath, newFileName, env) ==
  IF S.type = "indexed-db"
    THEN (IF ~S.open THEN IDB_notInitialized(S)
          ELSE IDB_lift(S, IDB_copyFile(S.db, path, targetPath, newFileName)))
  ELSE FSA_copyFile(S, path, targetPath, newFileName, env.now, env.onStale)

Adaptor_copyDirectory(S, path, targetPath, recursive, env) ==
  IF S.type = "indexed-db"
    THEN (IF ~S.open THEN IDB_notInitialized(S)
          ELSE IDB_lift(S, IDB_copyDirectory(S.db, path, targetPath, recursive, env.now)))
  ELSE FSA_copyDirectory(S, path, targetPath, recursive, env.now, env.onStale)

--------------------------------------------------------------------------
(* BaseAdaptor: the generic copy and move *)

guessIfFolderPath(path) == endsWithSep(path) \/ ~includesDot(basenameOf(path))

Base_copy(S, path, newPath, recursive, env) ==
  LET copyingToFolderPath == guessIfFolderPath(newPath)
      targetPath == IF copyingToFolderPath THEN newPath ELSE dirnameOf(newPath)
  IN Await([sourceStat \in {Adaptor_stat(S, path, env)} |->
       IF sourceStat.err # NoErr THEN sourceStat
       ELSE Await([made \in {Adaptor_mkdir(sourceStat.S, targetPath, env)} |->
         IF made.err # NoErr THEN made
         ELSE IF sourceStat.val # <<>> /\ sourceStat.val[1].isDirectory /\ ~copyingToFolderPath
           THEN Throw(made.S, "Cannot copy a directory to a file.")
         ELSE Await([d \in {IF sourceStat.val # <<>> /\ sourceStat.val[1].isDirectory
                     THEN Adaptor_copyDirectory(made.S, path, targetPath, recursive, env)
                   ELSE Ok(made.S, <<>>)} |->
           IF d.err # NoErr THEN d
           ELSE IF sourceStat.val # <<>> /\ sourceStat.val[1].isFile
             THEN Adaptor_copyFile(d.S, path, targetPath,
                    IF ~copyingToFolderPath THEN <<basenameOf(newPath)>> ELSE <<>>, env)
           ELSE Ok(d.S, <<>>)])])])

\* a move that undoes the copy when the deletion fails
Base_move_rollsBack(S, path, newPath, env) ==
  Await([sourceStat \in {Adaptor_stat(S, path, env)} |->
    IF sourceStat.err # NoErr THEN sourceStat
    ELSE Await([c \in {Base_copy(sourceStat.S, path, newPath, TRUE, env)} |->
      IF c.err # NoErr THEN c
      ELSE Await([d \in {IF sourceStat.val # <<>> /\ sourceStat.val[1].isDirectory
                  THEN Adaptor_rmdir(c.S, path, env)
                ELSE Adaptor_deleteFile(c.S, path, env)} |->
        IF d.err # NoErr THEN Throw(sourceStat.S, d.err) ELSE d])])])

Base_move(S, path, newPath, env) ==
  Await([sourceStat \in {Adaptor_stat(S, path, env)} |->
    IF sourceStat.err # NoErr THEN sourceStat
    ELSE Await([c \in {Base_copy(sourceStat.S, path, newPath, TRUE, env)} |->
      IF c.err # NoErr THEN c
      ELSE IF sourceStat.val # <<>> /\ sourceStat.val[1].isDirectory
        THEN Adaptor_rmdir(c.S, path, env)
      ELSE Adaptor_deleteFile(c.S, path, env)])])

--------------------------------------------------------------------------
(* FilesMultitool: the orchestrator.  A call returns [err, S, val, events]: *)
(* events are the emit() calls of the call, in the order they are made.     *)
(* A change record is [path, stat, action, renamed]: renamed is <<>> unless *)
(* the action is 'renamed', and then <<[oldPath, oldStat]>>.                *)

cleanPath(path) ==
  IF path = <<>> THEN [err |-> NoErr, val |-> <<>>]
  ELSE IF includesDotDot(path) THEN [err |-> "Invalid path.", val |-> <<>>]
  ELSE [err |-> NoErr, val |-> stripEnds(collapseSeps(path))]

FMOk(S, val, events) == [err |-> NoErr, S |-> S, val |-> val, events |-> events]

FMThrow(S, msg) == [err |-> msg, S |-> S, val |-> <<>>, events |-> <<>>]

EvChanged(name, path, change) ==
  [name |-> name, path |-> path, change |-> <<change>>, oldPath |-> <<>>,
   paths |-> <<>>, changes |-> <<>>]

EvSpecific(name, path, oldPath) ==
  [name |-> name, path |-> path, change |-> <<>>, oldPath |-> oldPath,
   paths |-> <<>>, changes |-> <<>>]

EvPathsChanged(paths, changes) ==
  [name |-> "paths-changed", path |-> <<>>, change |-> <<>>, oldPath |-> <<>>,
   paths |-> paths, changes |-> changes]

ChangeOldPath(change) == IF change.renamed = <<>> THEN <<>> ELSE change.renamed[1].oldPath

\* a file-changed emit whose listener derives no event
emitFileChanged_underived(path, change) == <<EvChanged("file-changed", path, change)>>

\* emit('file-changed', path, change), and the emit made by the listener the
\* constructor registered on it
emitFileChanged(path, change) ==
  <<EvChanged("file-changed", path, change)>> \o
  (CASE change.action = "added"   -> <<EvSpecific("file-added", path, <<>>)>>
     [] change.action = "deleted" -> <<EvSpecific("file-deleted", path, <<>>)>>
     [] change.action = "renamed" -> <<EvSpecific("file-renamed", path, ChangeOldPath(change))>>
     [] OTHER -> <<>>)

emitDirectoryChanged(path, change) ==
  <<EvChanged("directory-changed", path, change)>> \o
  (CASE change.action = "added"   -> <<EvSpecific("directory-added", path, <<>>)>>
     [] change.action = "deleted" -> <<EvSpecific("directory-deleted", path, <<>>)>>
     [] change.action = "renamed" ->
          <<EvSpecific("directory-renamed", path, ChangeOldPath(change))>>
     [] OTHER -> <<>>)

FM_stat(S, path, env) ==
  LET p == cleanPath(path)
  IN IF p.err # NoErr THEN FMThrow(S, p.err)
     ELSE Await([r \in {Adaptor_stat(S, p.val, env)} |->
       IF r.err # NoErr THEN FMThrow(r.S, r.err) ELSE FMOk(r.S, r.val, <<>>)])

RECURSIVE FM_listAt(_, _, _, _)
RECURSIVE FM_listEntries(_, _, _, _, _, _, _)
FM_listEntries(S, path, recursive, root, i, map, env) ==
  IF i > Len(root) THEN Ok(S, map)
  ELSE IF root[i][1] = path THEN FM_listEntries(S, path, recursive, root, i + 1, map, env)
  ELSE IF root[i][2].isDirectory /\ recursive
    THEN Await([children \in {FM_listAt(S, root[i][2].path, recursive, env)} |->
           IF children.err # NoErr THEN children
           ELSE FM_listEntries(children.S, path, recursive, root, i + 1,
                               MapAssign(MapSet(map, root[i][1], root[i][2]), children.val),
                               env)])
  ELSE FM_listEntries(S, path, recursive, root, i + 1, MapSet(map, root[i][1], root[i][2]), env)

\* list(path, recursive), as [err, S, val]
FM_listAt(S, path, recursive, env) ==
  LET p == cleanPath(path)
  IN IF p.err # NoErr THEN Throw(S, p.err)
     ELSE Await([root \in {Adaptor_list(S, p.val, env)} |->
       IF root.err # NoErr THEN root
       ELSE FM_listEntries(root.S, p.val, recursive, root.val, 1, <<>>, env)])

FM_list(S, path, recursive, env) ==
  Await([r \in {FM_listAt(S, path, recursive, env)} |->
    IF r.err # NoErr THEN FMThrow(r.S, r.err) ELSE FMOk(r.S, r.val, <<>>)])

FM_readFile(S, path, encoding, env) ==
  LET p == cleanPath(path)
  IN IF p.err # NoErr THEN FMThrow(S, p.err)
     ELSE Await([stat \in {Adaptor_stat(S, p.val, env)} |->
       IF stat.err # NoErr THEN FMThrow(stat.S, stat.err)
       ELSE IF stat.val = <<>> THEN FMThrow(stat.S, "File not found.")
       ELSE IF stat.val[1].isDirectory THEN FMThrow(stat.S, "Cannot read a directory.")
       ELSE Await([buffer \in {Adaptor_readFile(stat.S, p.val, env)} |->
         IF buffer.err # NoErr THEN FMThrow(buffer.S, buffer.err)
         ELSE FMOk(buffer.S, bufferToString(buffer.val, encoding), <<>>)])])

\* content is [type, value]: a string (type "string") or a Buffer
FM_writeFile(S, path, content, encoding, env) ==
  LET p == cleanPath(path)
      parentPath == stripEnds(dirnameOf(p.val))
      data == IF content.type = "string"
                THEN bufferFrom(content.value, encoding) ELSE content.value
  IN IF p.err # NoErr THEN FMThrow(S, p.err)
     ELSE Await([stat \in {Adaptor_stat(S, p.val, env)} |->
       IF stat.err # NoErr THEN FMThrow(stat.S, stat.err)
       ELSE IF stat.val # <<>> /\ stat.val[1].isDirectory
         THEN FMThrow(stat.S, "Cannot write to a directory.")
       ELSE Await([made \in {IF parentPath # <<>> THEN Adaptor_mkdir(stat.S, parentPath, env)
                 ELSE Ok(stat.S, <<>>)} |->
         IF made.err # NoErr THEN FMThrow(made.S, made.err)
         ELSE Await([w \in {Adaptor_writeFile(made.S, p.val, data, env)} |->
           IF w.err # NoErr THEN FMThrow(w.S, w.err)
           ELSE Await([after \in {IF stat.val # <<>> THEN Ok(w.S, stat.val)
                     ELSE Adaptor_stat(w.S, p.val, env)} |->
             IF after.err # NoErr THEN FMThrow(after.S, after.err)
             ELSE Await([change \in {[path |-> p.val, stat |-> after.val,
                        action |-> IF stat.val # <<>> THEN "modified" ELSE "added",
                        renamed |-> <<>>]} |->
               FMOk(after.S, <<>>, emitFileChanged(p.val, change)
                                   \o <<EvPathsChanged(<<p.val>>, <<change>>)>>)])])])])])

\* a deleteFile that leaves the checks to the adaptor
FM_deleteFile_unchecked(S, path, env) ==
  LET p == cleanPath(path)
  IN IF p.err # NoErr THEN FMThrow(S, p.err)
     ELSE Await([stat \in {Adaptor_stat(S, p.val, env)} |->
       IF stat.err # NoErr THEN FMThrow(stat.S, stat.err)
       ELSE Await([d \in {Adaptor_deleteFile(stat.S, p.val, env)} |->
         IF d.err # NoErr THEN FMThrow(d.S, d.err)
         ELSE Await([change \in {[path |-> p.val, stat |-> stat.val, action |-> "deleted",
                    renamed |-> <<>>]} |->
           FMOk(d.S, <<>>, emitFileChanged(p.val, change)
                           \o <<EvPathsChanged(<<p.val>>, <<change>>)>>)])])])

FM_deleteFile(S, path, env) ==
  LET p == cleanPath(path)
  IN IF p.err # NoErr THEN FMThrow(S, p.err)
     ELSE Await([stat \in {Adaptor_stat(S, p.val, env)} |->
       IF stat.err # NoErr THEN FMThrow(stat.S, stat.err)
       ELSE IF stat.val = <<>> THEN FMThrow(stat.S, "File not found.")
       ELSE IF stat.val[1].isDirectory THEN FMThrow(stat.S, "Cannot delete a directory.")
       ELSE Await([d \in {Adaptor_deleteFile(stat.S, p.val, env)} |->
         IF d.err # NoErr THEN FMThrow(d.S, d.err)
         ELSE Await([change \in {[path |-> p.val, stat |-> stat.val, action |-> "deleted",
                    renamed |-> <<>>]} |->
           FMOk(d.S, <<>>, emitFileChanged(p.val, change)
                           \o <<EvPathsChanged(<<p.val>>, <<change>>)>>)])])])

\* a mkdir that does not look whether the path exists
FM_mkdir_unchecked(S, path, env) ==
  LET p == cleanPath(path)
  IN IF p.err # NoErr THEN FMThrow(S, p.err)
     ELSE Await([made \in {Adaptor_mkdir(S, p.val, env)} |->
       IF made.err # NoErr THEN FMThrow(made.S, made.err)
       ELSE Await([after \in {Adaptor_stat(made.S, p.val, env)} |->
         IF after.err # NoErr THEN FMThrow(after.S, after.err)
         ELSE Await([change \in {[path |-> p.val, stat |-> after.val, action |-> "added",
                    renamed |-> <<>>]} |->
           FMOk(after.S, <<>>, emitDirectoryChanged(p.val, change)
                               \o <<EvPathsChanged(<<p.val>>, <<change>>)>>)])])])

FM_mkdir(S, path, env) ==
  LET p == cleanPath(path)
  IN IF p.err # NoErr THEN FMThrow(S, p.err)
     ELSE Await([stat \in {Adaptor_stat(S, p.val, env)} |->
       IF stat.err # NoErr THEN FMThrow(stat.S, stat.err)
       ELSE IF stat.val # <<>> THEN FMThrow(stat.S, "Directory already exists.")
       ELSE Await([made \in {Adaptor_mkdir(stat.S, p.val, env)} |->
         IF made.err # NoErr THEN FMThrow(made.S, made.err)
         ELSE Await([after \in {Adaptor_stat(made.S, p.val, env)} |->
           IF after.err # NoErr THEN FMThrow(after.S, after.err)
           ELSE Await([change \in {[path |-> p.val, stat |-> after.val, action |-> "added",
                      renamed |-> <<>>]} |->
             FMOk(after.S, <<>>, emitDirectoryChanged(p.val, change)
                                 \o <<EvPathsChanged(<<p.val>>, <<change>>)>>)])])])])

\* String.prototype.indexOf(pat), counted from 0; -1 when pat does not occur
indexOf(s, pat) ==
  LET hits == {i \in 0..(Len(s) - Len(pat)) : SubSeq(s, i + 1, i + Len(pat)) = pat}
  IN IF hits = {} THEN -1 ELSE CHOOSE i \in hits : \A j \in hits : i <= j

\* String.prototype.replace(pat, rep) with a string pattern: the first occurrence
replaceFirst(s, pat, rep) ==
  LET i == indexOf(s, pat)
  IN IF i < 0 THEN s
     ELSE SubSeq(s, 1, i) \o rep \o SubSeq(s, i + Len(pat) + 1, Len(s))

\* getOldPath of _massEmit: <<>> is null
getOldPath(newPath, path, oldPath, oldPathMap) ==
  LET truthy == oldPath # <<>> /\ oldPath[1] # <<>>
      oldPaths == IF truthy THEN <<oldPath[1]>> \o MapKeys(oldPathMap) ELSE <<>>
      res == replaceFirst(newPath, path, IF truthy THEN oldPath[1] ELSE <<>>)
  IN IF \E i \in 1..Len(oldPaths) : oldPaths[i] = res THEN <<res>> ELSE <<>>

massEmitChange(action, childPath, pathMap, path, oldPath, oldPathMap) ==
  LET old == getOldPath(childPath, path, oldPath, oldPathMap)
      key == IF old = <<>> THEN <<>> ELSE old[1]
  IN [path |-> childPath, stat |-> <<MapGet(pathMap, childPath)>>, action |-> action,
      renamed |-> IF action = "renamed"
                    THEN <<[oldPath |-> old,
                            oldStat |-> IF MapHas(oldPathMap, key)
                                          THEN <<MapGet(oldPathMap, key)>> ELSE <<>>]>>
                  ELSE <<>>]

RECURSIVE massEmitChildren(_, _)
massEmitChildren(changes, i) ==
  IF i > Len(changes) THEN <<>>
  ELSE (IF changes[i].stat[1].isDirectory
          THEN emitDirectoryChanged(changes[i].path, changes[i])
        ELSE emitFileChanged(changes[i].path, changes[i]))
       \o massEmitChildren(changes, i + 1)

\* _massEmit: the events it emits.  pathMap is always passed by the callers.
massEmit(action, path, pathStat, pathMap, oldPath, oldStat, oldPathMap) ==
  LET rootChange == [path |-> path, stat |-> <<pathStat>>, action |-> action,
                     renamed |-> IF action = "renamed"
                                   THEN <<[oldPath |-> oldPath, oldStat |-> oldStat]>>
                                 ELSE <<>>]
      keys == MapKeys(pathMap)
      changes == [i \in 1..Len(keys) |->
                    massEmitChange(action, keys[i], pathMap, path, oldPath, oldPathMap)]
  IN IF ~pathStat.isDirectory
       THEN emitFileChanged(path, rootChange) \o <<EvPathsChanged(<<path>>, <<rootChange>>)>>
     ELSE massEmitChildren(changes, 1)
          \o emitDirectoryChanged(path, rootChange)
          \o <<EvPathsChanged(<<path>> \o keys, <<rootChange>> \o changes)>>

\* an rmdir that leaves the emptiness of the directory to the adaptor
FM_rmdir_unchecked(S, path, recursive, env) ==
  LET p == cleanPath(path)
  IN IF p.err # NoErr THEN FMThrow(S, p.err)
     ELSE Await([stat \in {Adaptor_stat(S, p.val, env)} |->
       IF stat.err # NoErr THEN FMThrow(stat.S, stat.err)
       ELSE IF stat.val = <<>> THEN FMThrow(stat.S, "Directory not found.")
       ELSE IF ~stat.val[1].isDirectory THEN FMThrow(stat.S, "Cannot delete a file.")
       ELSE Await([children \in {FM_listAt(stat.S, p.val, recursive, env)} |->
         IF children.err # NoErr THEN FMThrow(children.S, children.err)
         ELSE Await([r \in {Adaptor_rmdir(children.S, p.val, env)} |->
           IF r.err # NoErr THEN FMThrow(r.S, r.err)
           ELSE FMOk(r.S, <<>>,
                     massEmit("deleted", p.val, stat.val[1], children.val,
                              <<>>, <<>>, <<>>))])])])

FM_rmdir(S, path, recursive, env) ==
  LET p == cleanPath(path)
  IN IF p.err # NoErr THEN FMThrow(S, p.err)
     ELSE Await([stat \in {Adaptor_stat(S, p.val, env)} |->
       IF stat.err # NoErr THEN FMThrow(stat.S, stat.err)
       ELSE IF stat.val = <<>> THEN FMThrow(stat.S, "Directory not found.")
       ELSE IF ~stat.val[1].isDirectory THEN FMThrow(stat.S, "Cannot delete a file.")
       ELSE Await([children \in {FM_listAt(stat.S, p.val, recursive, env)} |->
         IF children.err # NoErr THEN FMThrow(children.S, children.err)
         ELSE IF Len(children.val) > 0 /\ ~recursive
           THEN FMThrow(children.S, "Directory is not empty.")
         ELSE Await([r \in {Adaptor_rmdir(children.S, p.val, env)} |->
           IF r.err # NoErr THEN FMThrow(r.S, r.err)
           ELSE FMOk(r.S, <<>>,
                     massEmit("deleted", p.val, stat.val[1], children.val,
                              <<>>, <<>>, <<>>))])])])

FM_copy(S, source, destination, recursive, env) ==
  LET src == cleanPath(source)
      dst == cleanPath(destination)
  IN IF src.err # NoErr THEN FMThrow(S, src.err)
     ELSE IF dst.err # NoErr THEN FMThrow(S, dst.err)
     ELSE Await([sourceStat \in {Adaptor_stat(S, src.val, env)} |->
       IF sourceStat.err # NoErr THEN FMThrow(sourceStat.S, sourceStat.err)
       ELSE IF sourceStat.val = <<>> THEN FMThrow(sourceStat.S, "Source not found.")
       ELSE Await([c \in {Base_copy(sourceStat.S, src.val, dst.val, recursive, env)} |->
         IF c.err # NoErr THEN FMThrow(c.S, c.err)
         ELSE Await([children \in {IF sourceStat.val[1].isDirectory
                     THEN FM_listAt(c.S, dst.val, recursive, env)
                   ELSE Ok(c.S, <<>>)} |->
           IF children.err # NoErr THEN FMThrow(children.S, children.err)
           ELSE FMOk(children.S, <<>>,
                     massEmit("added", dst.val, sourceStat.val[1], children.val,
                              <<>>, <<>>, <<>>))])])])

\* a move that does not look whether the destination exists
FM_move_overwrites(S, source, destination, env) ==
  LET src == cleanPath(source)
      dst == cleanPath(destination)
  IN IF src.err # NoErr THEN FMThrow(S, src.err)
     ELSE IF dst.err # NoErr THEN FMThrow(S, dst.err)
     ELSE Await([sourceStat \in {Adaptor_stat(S, src.val, env)} |->
       IF sourceStat.err # NoErr THEN FMThrow(sourceStat.S, sourceStat.err)
       ELSE IF sourceStat.val = <<>> THEN FMThrow(sourceStat.S, "Source not found.")
       ELSE Await([sourceChildren \in {IF sourceStat.val[1].isDirectory
                   THEN FM_listAt(sourceStat.S, src.val, TRUE, env)
                 ELSE Ok(sourceStat.S, <<>>)} |->
         IF sourceChildren.err # NoErr THEN FMThrow(sourceChildren.S, sourceChildren.err)
         ELSE Await([m \in {Base_move(sourceChildren.S, src.val, dst.val, env)} |->
           IF m.err # NoErr THEN FMThrow(m.S, m.err)
           ELSE Await([after \in {Adaptor_stat(m.S, dst.val, env)} |->
             IF after.err # NoErr THEN FMThrow(after.S, after.err)
             ELSE IF after.val = <<>>
               THEN FMThrow(after.S, "Something went wrong. New destination was not found.")
             ELSE Await([destinationChildren \in {IF sourceStat.val[1].isDirectory
                         THEN FM_listAt(after.S, dst.val, TRUE, env)
                       ELSE Ok(after.S, <<>>)} |->
               IF destinationChildren.err # NoErr
                 THEN FMThrow(destinationChildren.S, destinationChildren.err)
               ELSE FMOk(destinationChildren.S, <<>>,
                         massEmit("renamed", dst.val, after.val[1],
                                  destinationChildren.val, <<src.val>>, sourceStat.val,
                                  sourceChildren.val))])])])])])

FM_move(S, source, destination, env) ==
  LET src == cleanPath(source)
      dst == cleanPath(destination)
  IN IF src.err # NoErr THEN FMThrow(S, src.err)
     ELSE IF dst.err # NoErr THEN FMThrow(S, dst.err)
     ELSE Await([sourceStat \in {Adaptor_stat(S, src.val, env)} |->
       IF sourceStat.err # NoErr THEN FMThrow(sourceStat.S, sourceStat.err)
       ELSE IF sourceStat.val = <<>> THEN FMThrow(sourceStat.S, "Source not found.")
       ELSE Await([destinationStat \in {Adaptor_stat(sourceStat.S, dst.val, env)} |->
         IF destinationStat.err # NoErr THEN FMThrow(destinationStat.S, destinationStat.err)
         ELSE IF destinationStat.val # <<>>
           THEN FMThrow(destinationStat.S, "Destination already exists.")
         ELSE Await([sourceChildren \in {IF sourceStat.val[1].isDirectory
                     THEN FM_listAt(destinationStat.S, src.val, TRUE, env)
                   ELSE Ok(destinationStat.S, <<>>)} |->
           IF sourceChildren.err # NoErr THEN FMThrow(sourceChildren.S, sourceChildren.err)
           ELSE Await([m \in {Base_move(sourceChildren.S, src.val, dst.val, env)} |->
             IF m.err # NoErr THEN FMThrow(m.S, m.err)
             ELSE Await([after \in {Adaptor_stat(m.S, dst.val, env)} |->
               IF after.err # NoErr THEN FMThrow(after.S, after.err)
               ELSE IF after.val = <<>>
                 THEN FMThrow(after.S, "Something went wrong. New destination was not found.")
               ELSE Await([destinationChildren \in {IF sourceStat.val[1].isDirectory
                           THEN FM_listAt(after.S, dst.val, TRUE, env)
                         ELSE Ok(after.S, <<>>)} |->
                 IF destinationChildren.err # NoErr
                   THEN FMThrow(destinationChildren.S, destinationChildren.err)
                 ELSE FMOk(destinationChildren.S, <<>>,
                           massEmit("renamed", dst.val, after.val[1],
                                    destinationChildren.val, <<src.val>>, sourceStat.val,
                                    sourceChildren.val))])])])])])])

--------------------------------------------------------------------------
(* init(), destroy() and isInitialized.  granted is the answer of the        *)
(* substrate to init: the database was opened (IndexedDB), the directory    *)
(* handle was found or picked and permitted (File System Access API).       *)
(* IndexedDBAdaptor overrides the isInitialized accessor of BaseAdaptor     *)
(* with a getter alone, so the assignment this.isInitialized = ... made by  *)
(* BaseAdaptor.init and BaseAdaptor.destroy, which it calls last, throws a  *)
(* TypeError (class code is strict): both reject after having done their    *)
(* work.  FSAAdaptor calls neither.                                         *)

IDB_isInitialized(S) == S.open

FSA_isInitialized(S) == S.root

\* FilesMultitool.isInitialized, the adaptor's getter
Initialized(S) == IF S.type = "indexed-db" THEN IDB_isInitialized(S) ELSE FSA_isInitialized(S)

IDB_init(S, granted) ==
  IF ~granted THEN Throw(S, "Event")
  ELSE Throw([S EXCEPT !.open = TRUE], "TypeError")

IDB_destroy(S) == Throw([S EXCEPT !.open = FALSE], "TypeError")

FSA_init(S, granted) ==
  IF ~granted THEN Throw(S, "AbortError")
  ELSE Ok([S EXCEPT !.root = TRUE], <<>>)

\* a destroy that forgets the caches and keeps the root handle
FSA_destroy_keepsRoot(S) == Ok(FSA_purgeCacheAll(S), <<>>)

FSA_destroy(S) == Ok(FSA_purgeCacheAll([S EXCEPT !.root = FALSE]), <<>>)

Adaptor_init(S, granted) ==
  IF S.type = "indexed-db" THEN IDB_init(S, granted) ELSE FSA_init(S, granted)

Adaptor_destroy(S) == IF S.type = "indexed-db" THEN IDB_destroy(S) ELSE FSA_destroy(S)

FM_init(S, granted) ==
  Await([r \in {Adaptor_init(S, granted)} |->
    IF r.err # NoErr THEN FMThrow(r.S, r.err) ELSE FMOk(r.S, <<>>, <<>>)])

FM_destroy(S) ==
  Await([r \in {Adaptor_destroy(S)} |->
    IF r.err # NoErr THEN FMThrow(r.S, r.err) ELSE FMOk(r.S, <<>>, <<>>)])

--------------------------------------------------------------------------
(* The state machine: a caller makes one orchestrator call after another.   *)
(* idb is the adaptor of an instance created with the IndexedDB type, fsa   *)
(* the adaptor of an instance created with the File System Access type.     *)
(* clock is the wall clock: a call reads clock + 1, and the clock advances  *)
(* when the call changed what is stored.  call is the last call made, out   *)
(* and outF its outcome [err, val, events] on either instance, pre and preF *)
(* the two adaptors as the last call found them.  The calls that can change *)
(* what is stored are made while clock < MaxClock.                          *)

VARIABLES idb, fsa, clock, call, out, outF, pre, preF

vars == <<idb, fsa, clock, call, out, outF, pre, preF>>

\* the number of calls that change what is stored
MaxClock == 3

RootPath == <<>>

PathA == <<"a">>

PathB == <<"b">>

PathY == <<"y.t">>

PathAX == <<"a", "/", "x.t">>

PathAS == <<"a", "/", "s">>

PathASY == <<"a", "/", "s", "/", "y.t">>

PathAXY == <<"a", "/", "x.t", "/", "y.t">>

PathBX == <<"b", "/", "x.t">>

PathBS == <<"b", "/", "s">>

PathBSY == <<"b", "/", "s", "/", "y.t">>

\* 'a/x.t' as a caller may also spell it, and a path cleanPath rejects
PathAXRaw == <<"/", "a", "/", "/", "x.t", "/">>

PathDotDot == <<"a", "/", "..", "/", "b">>

\* every path an entry can have in the runs below
AllPaths ==
  {RootPath, PathA, PathB, PathY, PathAX, PathAS, PathASY, PathAXY, PathBX, PathBS,
   PathBSY, <<"b", "/", "y.t">>, <<"b", "/", "x.t", "/", "y.t">>, <<"x.t">>, <<"s">>,
   <<"s", "/", "y.t">>, <<"a", "/", "y.t">>, <<"a", "/", "s", "/", "x.t">>}

StatPaths == {PathA, PathAX, PathAXRaw, PathY}

ListPaths == {RootPath, PathA}

ReadFilePaths == {PathAX, PathASY}

FilePaths == {PathAX, PathASY, PathAXY}

DirPaths == {PathA, PathAS, PathB, PathDotDot}

RmdirPaths == {PathA, PathAS, PathB, RootPath}

SourcePaths == {PathA, PathAX}

DestinationPaths == {PathB, PathY, PathBX, RootPath}

BytesHi == <<104, 105>>

BytesBad == <<255>>

StringE == <<233>>

Contents ==
  {[type |-> "buffer", value |-> BytesHi], [type |-> "buffer", value |-> BytesBad],
   [type |-> "string", value |-> StringE]}

\* what a caller writes to a path
ContentsFor(p) == IF p = PathAX THEN Contents ELSE {[type |-> "buffer", value |-> BytesHi]}

Encodings == {"utf-8", "latin1"}

\* the request the store may reject during a call: none, or the first one for
\* the path the call names, or the one for a child of it
Faults(p) == {<<>>, <<p>>} \cup (IF p = PathA THEN {<<PathAX>>} ELSE {})

NoCall ==
  [op |-> "new", path |-> <<>>, dest |-> <<>>, recursive |-> FALSE,
   content |-> [type |-> "buffer", value |-> <<>>], encoding |-> "utf-8",
   now |-> 0, fault |-> <<>>, onStale |-> "data", granted |-> TRUE]

NoOut == [err |-> NoErr, val |-> <<>>, events |-> <<>>]

EnvOf(c) == [now |-> c.now, onStale |-> c.onStale, fault |-> c.fault]

OutOf(r) == [err |-> r.err, val |-> r.val, events |-> r.events]

\* a call that does not return leaves its caller waiting
Returned == out.err # Hang /\ outF.err # Hang

\* the calls that write to the store
Mutating(op) == op \in {"writeFile", "deleteFile", "mkdir", "rmdir", "copy", "move"}

\* a call made now: new Date() during the call reads the next clock value
Call(op) == [NoCall EXCEPT !.op = op, !.now = clock + 1]

\* the clock advances with the calls that change the store
Tick(S) == IF S.db # idb.db THEN clock + 1 ELSE clock

Init ==
  /\ idb = [type |-> "indexed-db", open |-> FALSE, db |-> <<>>]
  /\ fsa = [type |-> "fsa-api", root |-> FALSE, fs |-> <<>>, pathCache |-> <<>>,
            fileCache |-> <<>>]
  /\ clock = 0
  /\ call = NoCall
  /\ out = NoOut
  /\ outF = NoOut
  /\ pre = idb
  /\ preF = fsa

DoInit ==
  /\ Returned
  /\ \E c \in {Call("init")} :
       \E r \in {FM_init(idb, c.granted)} :
         /\ call' = c
         /\ idb' = r.S
         /\ pre' = idb
         /\ out' = OutOf(r)
         /\ clock' = Tick(r.S)
         /\ UNCHANGED <<fsa, outF, preF>>

Stat ==
  /\ Returned
  /\ \E p \in StatPaths :
       \E c \in {[Call("stat") EXCEPT !.path = p]} :
         \E r \in {FM_stat(idb, c.path, EnvOf(c))} :
           /\ call' = c
           /\ idb' = r.S
           /\ pre' = idb
           /\ out' = OutOf(r)
           /\ clock' = Tick(r.S)
           /\ UNCHANGED <<fsa, outF, preF>>

List ==
  /\ Returned
  /\ \E p \in ListPaths, rec \in BOOLEAN :
       \E c \in {[Call("list") EXCEPT !.path = p, !.recursive = rec]} :
         \E r \in {FM_list(idb, c.path, c.recursive, EnvOf(c))} :
           /\ call' = c
           /\ idb' = r.S
           /\ pre' = idb
           /\ out' = OutOf(r)
           /\ clock' = Tick(r.S)
           /\ UNCHANGED <<fsa, outF, preF>>

ReadFile ==
  /\ Returned
  /\ \E p \in ReadFilePaths, e \in Encodings :
       \E c \in {[Call("readFile") EXCEPT !.path = p, !.encoding = e]} :
         \E r \in {FM_readFile(idb, c.path, c.encoding, EnvOf(c))} :
           /\ call' = c
           /\ idb' = r.S
           /\ pre' = idb
           /\ out' = OutOf(r)
           /\ clock' = Tick(r.S)
           /\ UNCHANGED <<fsa, outF, preF>>

WriteFile ==
  /\ Returned
  /\ clock < MaxClock
  /\ \E p \in FilePaths :
       \E content \in ContentsFor(p) :
         \E c \in {[Call("writeFile") EXCEPT !.path = p, !.content = content]} :
           \E r \in {FM_writeFile(idb, c.path, c.content, c.encoding, EnvOf(c))} :
             /\ call' = c
             /\ idb' = r.S
             /\ pre' = idb
             /\ out' = OutOf(r)
             /\ clock' = Tick(r.S)
             /\ UNCHANGED <<fsa, outF, preF>>

DeleteFile ==
  /\ Returned
  /\ clock < MaxClock
  /\ \E p \in FilePaths \cup {PathAXRaw}, f \in {<<>>, <<PathAX>>} :
       \E c \in {[Call("deleteFile") EXCEPT !.path = p, !.fault = f]} :
         \E r \in {FM_deleteFile(idb, c.path, EnvOf(c))} :
           /\ call' = c
           /\ idb' = r.S
           /\ pre' = idb
           /\ out' = OutOf(r)
           /\ clock' = Tick(r.S)
           /\ UNCHANGED <<fsa, outF, preF>>

Mkdir ==
  /\ Returned
  /\ clock < MaxClock
  /\ \E p \in DirPaths :
       \E c \in {[Call("mkdir") EXCEPT !.path = p]} :
         \E r \in {FM_mkdir(idb, c.path, EnvOf(c))} :
           /\ call' = c
           /\ idb' = r.S
           /\ pre' = idb
           /\ out' = OutOf(r)
           /\ clock' = Tick(r.S)
           /\ UNCHANGED <<fsa, outF, preF>>

Rmdir ==
  /\ Returned
  /\ clock < MaxClock
  /\ \E p \in RmdirPaths, rec \in BOOLEAN :
       \E f \in Faults(p) :
         \E c \in {[Call("rmdir") EXCEPT !.path = p, !.recursive = rec, !.fault = f]} :
           \E r \in {FM_rmdir(idb, c.path, c.recursive, EnvOf(c))} :
             /\ call' = c
             /\ idb' = r.S
             /\ pre' = idb
             /\ out' = OutOf(r)
             /\ clock' = Tick(r.S)
             /\ UNCHANGED <<fsa, outF, preF>>

Copy ==
  /\ Returned
  /\ clock < MaxClock
  /\ \E p \in SourcePaths, d \in DestinationPaths :
       \E rec \in (IF p = PathA THEN BOOLEAN ELSE {FALSE}) :
         \E c \in {[Call("copy") EXCEPT !.path = p, !.dest = d, !.recursive = rec]} :
           \E r \in {FM_copy(idb, c.path, c.dest, c.recursive, EnvOf(c))} :
             /\ call' = c
             /\ idb' = r.S
             /\ pre' = idb
             /\ out' = OutOf(r)
             /\ clock' = Tick(r.S)
             /\ UNCHANGED <<fsa, outF, preF>>

Move ==
  /\ Returned
  /\ clock < MaxClock
  /\ \E p \in SourcePaths, d \in DestinationPaths :
       \E f \in Faults(p) :
         \E c \in {[Call("move") EXCEPT !.path = p, !.dest = d, !.fault = f]} :
           \E r \in {FM_move(idb, c.path, c.dest, EnvOf(c))} :
             /\ call' = c
             /\ idb' = r.S
             /\ pre' = idb
             /\ out' = OutOf(r)
             /\ clock' = Tick(r.S)
             /\ UNCHANGED <<fsa, outF, preF>>

Next ==
  \/ DoInit
  \/ Stat
  \/ List
  \/ ReadFile
  \/ WriteFile
  \/ DeleteFile
  \/ Mkdir
  \/ Rmdir
  \/ Copy
  \/ Move

Spec == Init /\ [][Next]_vars

--------------------------------------------------------------------------
(* What a caller observes when it reads right after the last call *)

ReadEnv == [now |-> clock + 1, onStale |-> "data", fault |-> <<>>]

\* the canonical form of the path the last call named
CallPath == cleanPath(call.path).val

\* the record stored under a path, live or tombstoned
RecordOf(S, p) == IDB_getItem(S.db, p)

IsTombstone(S, p) == IDB_isDeleted(RecordOf(S, p))

IsLive(S, p) == RecordOf(S, p) # <<>> /\ ~IsTombstone(S, p)

\* bytes that are the UTF-8 form of some text: ASCII and two-byte sequences
RECURSIVE utf8WellFormed(_)
utf8WellFormed(buf) ==
  IF buf = <<>> THEN TRUE
  ELSE IF buf[1] < 128 THEN utf8WellFormed(Tail(buf))
  ELSE /\ buf[1] >= 194 /\ buf[1] <= 223
       /\ Len(buf) >= 2 /\ isContinuation(buf[2])
       /\ utf8WellFormed(Tail(Tail(buf)))

WellFormedIn(buf, encoding) == encoding = "latin1" \/ utf8WellFormed(buf)

--------------------------------------------------------------------------
(* C1 *)

BufferWritten == call.op = "writeFile" /\ out.err = NoErr /\ call.content.type = "buffer"

\* C1 (as amended): on the IndexedDB backend, right after a successful
\* orchestrator writeFile(p, b) of a byte payload b (p absent, live or
\* tombstoned before), the adaptor's readFile(p) returns exactly b, and the
\* orchestrator's readFile(p, e) succeeds and returns a text whose bytes in e
\* are exactly b whenever b is well formed in e (always for latin1).
C1_WriteReadRoundTrip ==
  BufferWritten =>
    LET b == call.content.value
        raw == Adaptor_readFile(idb, CallPath, ReadEnv)
    IN /\ raw.err = NoErr
       /\ raw.val = b
       /\ \A e \in Encodings :
            LET r == FM_readFile(idb, call.path, e, ReadEnv)
            IN /\ r.err = NoErr
               /\ WellFormedIn(b, e) => bufferFrom(r.val, e) = b

\* a payload that is not UTF-8 was written over a tombstone and read back whole
C1_Witness ==
  /\ BufferWritten
  /\ call.content.value = BytesBad
  /\ IsTombstone(pre, CallPath)
  /\ bufferFrom(FM_readFile(idb, call.path, "latin1", ReadEnv).val, "latin1") = BytesBad

\* C1 as stated: readFile(p), with its default encoding, returns exactly b
\* for every byte payload b
C1_Original ==
  BufferWritten =>
    LET r == FM_readFile(idb, call.path, "utf-8", ReadEnv)
    IN r.err = NoErr /\ bufferFrom(r.val, "utf-8") = call.content.value

--------------------------------------------------------------------------
(* C2 *)

StoredPaths(S) == DOMAIN S.db

\* a tombstoned record is absent from stat, readFile and the listing of its parent
TombstoneInvisible ==
  \A p \in StoredPaths(idb) :
    IsTombstone(idb, p) =>
      /\ FM_stat(idb, p, ReadEnv).err = NoErr
      /\ FM_stat(idb, p, ReadEnv).val = <<>>
      /\ FM_readFile(idb, p, "utf-8", ReadEnv).err = "File not found."
      /\ LET l == FM_list(idb, stripEnds(dirnameOf(p)), FALSE, ReadEnv)
         IN l.err = NoErr /\ ~MapHas(l.val, p)

\* a successful deleteFile(p) leaves the record of p stored, with the marker
DeletedIsTombstoned ==
  (call.op = "deleteFile" /\ out.err = NoErr) => IsTombstone(idb, CallPath)

\* the calls that write records
Writes(c) == c.op \in {"writeFile", "mkdir", "copy", "move"}

\* the path a writing call targets: its destination for copy and move
TargetOf(c) == IF c.op \in {"copy", "move"} THEN cleanPath(c.dest).val ELSE cleanPath(c.path).val

\* the call writes at p: its target is p or lies below p (the missing
\* ancestors of a target are created), or p lies in the tree a copy or a
\* move puts at its destination
WritesAt(c, p) ==
  /\ Writes(c)
  /\ \/ IsPrefixPath(p, TargetOf(c))
     \/ c.op \in {"copy", "move"} /\ IsPrefixPath(TargetOf(c), p)

\* the call is a writeFile, mkdir or copy whose target is p itself
Targets(c, p) == c.op \in {"writeFile", "mkdir", "copy"} /\ TargetOf(c) = p

TombstonePersists ==
  \A p \in StoredPaths(idb) :
    (IsTombstone(idb, p) /\ ~WritesAt(call', p)) =>
      (p \in StoredPaths(idb') /\ IsTombstone(idb', p))

\* C2 (as amended): on the IndexedDB backend a successful deleteFile(p)
\* leaves the record of p stored with a deletion marker; while the marker is
\* there stat(p) is null, readFile(p) fails with 'File not found.' and
\* list(parentOf(p)) has no entry for p; and the marker stays through every
\* call except a writeFile, mkdir, copy or move that writes at p (targets p
\* or a path below it, or copies or moves a tree over it).
C2_TombstoneUntilRewritten ==
  /\ [](TombstoneInvisible /\ DeletedIsTombstoned)
  /\ [][TombstonePersists]_vars

\* a deleted file is still a tombstone after a later call that changed the
\* store elsewhere, and is invisible to stat
C2_Witness ==
  /\ Mutating(call.op) /\ call.op # "deleteFile" /\ out.err = NoErr
  /\ idb.db # pre.db
  /\ \E p \in StoredPaths(pre) :
       /\ IsTombstone(pre, p) /\ pre.db[p].isFile
       /\ p \in StoredPaths(idb) /\ IsTombstone(idb, p)
       /\ FM_stat(idb, p, ReadEnv).val = <<>>

\* C2 as stated: the marker stays until the next writeFile, mkdir or copy
\* that targets p
C2_Original ==
  [][\A p \in StoredPaths(idb) :
       (IsTombstone(idb, p) /\ idb.db[p].isFile /\ ~Targets(call', p)) =>
         (p \in StoredPaths(idb') /\ IsTombstone(idb', p))]_vars

--------------------------------------------------------------------------
(* C3 *)

\* the last call was a successful writeFile to a path whose record was the
\* tombstone of a file
RevivedByWrite ==
  /\ call.op = "writeFile" /\ out.err = NoErr
  /\ IsTombstone(pre, CallPath) /\ pre.db[CallPath].isFile

\* C3: on the IndexedDB backend, a writeFile to a path that was written and
\* then deleted leaves the record live (marker cleared), with the createdTime
\* of the tombstoned predecessor and the time of the write as modifiedTime.
C3_RevivalKeepsCreatedTime ==
  RevivedByWrite =>
    /\ IsLive(idb, CallPath)
    /\ idb.db[CallPath].createdTime = pre.db[CallPath].createdTime
    /\ idb.db[CallPath].modifiedTime = <<call.now>>

\* what the code does at a revival: the record is live and both times are
\* the time of the write
C3_RevivalIsFresh ==
  RevivedByWrite =>
    /\ IsLive(idb, CallPath)
    /\ idb.db[CallPath].createdTime = <<call.now>>
    /\ idb.db[CallPath].modifiedTime = <<call.now>>
    /\ pre.db[CallPath].createdTime # <<call.now>>

C3_Witness == RevivedByWrite

--------------------------------------------------------------------------
(* C4 *)

IsLiveDirectory(S, p) == IsLive(S, p) /\ S.db[p].isDirectory

IsLiveFile(S, p) == IsLive(S, p) /\ S.db[p].isFile

\* the live records filed under the directory p, p itself apart
LiveEntries(S, p) ==
  {q \in StoredPaths(S) : q # p /\ S.db[q].parentPath = p /\ IsLive(S, q)}

\* the last call was rmdir(p, false) on a live directory with a live entry
RmdirOfNonEmpty ==
  /\ call.op = "rmdir" /\ ~call.recursive
  /\ pre.open
  /\ IsLiveDirectory(pre, CallPath)
  /\ LiveEntries(pre, CallPath) # {}

\* C4: rmdir(p, false) on a directory with at least one live entry fails
\* with 'Directory is not empty.'; the adaptor's rmdir is not invoked (a
\* request of it that would be rejected is never made), no record changes
\* and no event is emitted.
C4_NonRecursiveRmdirRejected ==
  RmdirOfNonEmpty =>
    /\ out.err = "Directory is not empty."
    /\ idb = pre
    /\ out.events = <<>>

\* such a call was made while the first request of the adaptor's rmdir was
\* set to be rejected
C4_Witness ==
  /\ RmdirOfNonEmpty
  /\ call.fault = <<CallPath>>
  /\ out.err = "Directory is not empty."

--------------------------------------------------------------------------
(* C5 *)

\* every live record with a parentPath sits in a live directory
WellFormed(S) ==
  \A q \in StoredPaths(S) :
    (IsLive(S, q) /\ S.db[q].parentPath # <<>>) => IsLiveDirectory(S, S.db[q].parentPath)

HasRootRecord(S) == RootPath \in StoredPaths(S)

\* the last call was rmdir(p, true) on a live directory, no request rejected
RecursiveRmdir ==
  /\ call.op = "rmdir" /\ call.recursive /\ call.fault = <<>>
  /\ pre.open
  /\ IsLiveDirectory(pre, CallPath)

\* stat is null for p and for every path below p
SubtreeGone(S, p) ==
  \A q \in AllPaths \cup StoredPaths(S) :
    IsPrefixPath(p, q) =>
      LET st == FM_stat(S, q, ReadEnv) IN st.err = NoErr /\ st.val = <<>>

\* C5: rmdir(p, true) on an existing directory succeeds, and afterwards stat
\* is null for p and for every path that has p as a proper prefix, in every
\* state the store reaches through orchestrator calls.
C5_RecursiveRmdirRemovesSubtree ==
  RecursiveRmdir => (out.err = NoErr /\ SubtreeGone(idb, CallPath))

\* C5 where the tree was well formed and held no record for the root path
C5_RecursiveRmdirOfWellFormedTree ==
  (RecursiveRmdir /\ WellFormed(pre) /\ ~HasRootRecord(pre)) =>
    (out.err = NoErr /\ SubtreeGone(idb, CallPath))

\* a recursive rmdir removed a directory that held a subdirectory with a file
C5_Witness ==
  /\ RecursiveRmdir /\ WellFormed(pre) /\ ~HasRootRecord(pre)
  /\ CallPath = PathA /\ IsLiveFile(pre, PathASY)
  /\ out.err = NoErr

\* a recursive rmdir of the root directory that does not return
C5_RootRmdirHangs == RecursiveRmdir /\ CallPath = RootPath /\ out.err = Hang

--------------------------------------------------------------------------
(* C6 *)

CallDest == cleanPath(call.dest).val

\* the path under b that corresponds to the path q under a
Rebase(q, a, b) ==
  LET rel == SubSeq(q, Len(a) + 2, Len(q))
  IN IF b = <<>> THEN rel ELSE b \o <<SEP>> \o rel

\* the live files below the directory a
FilesUnder(S, a) == {q \in StoredPaths(S) : IsProperPrefixPath(a, q) /\ IsLiveFile(S, q)}

\* the file q of S is a live file of T at path r, with the same content
SameFileAt(S, q, T, r) ==
  /\ r \in StoredPaths(T) /\ IsLiveFile(T, r)
  /\ T.db[r].content = S.db[q].content
  /\ FM_readFile(T, r, "latin1", ReadEnv).val = FM_readFile(S, q, "latin1", ReadEnv).val

\* the last call was copy(a, b, true) of a live directory a to an absent,
\* directory-shaped destination b that is not a and not below a
RecursiveCopy ==
  /\ call.op = "copy" /\ call.recursive
  /\ pre.open
  /\ IsLiveDirectory(pre, CallPath)
  /\ ~IsLive(pre, CallDest)
  /\ guessIfFolderPath(CallDest)
  /\ ~IsPrefixPath(CallPath, CallDest)

\* the records at and below a are what they were
SourceUnchanged(a) ==
  \A q \in StoredPaths(pre) :
    IsPrefixPath(a, q) => (q \in StoredPaths(idb) /\ idb.db[q] = pre.db[q])

\* C6: copy(a, b, true) of a directory a to an absent, directory-shaped
\* destination b outside a succeeds, every file a/<rel> of the source subtree,
\* at any depth, is afterwards a file b/<rel> with identical content, and the
\* source records are unchanged.
C6_RecursiveCopyCopiesSubtree ==
  RecursiveCopy =>
    /\ out.err = NoErr
    /\ \A q \in FilesUnder(pre, CallPath) : SameFileAt(pre, q, idb, Rebase(q, CallPath, CallDest))
    /\ SourceUnchanged(CallPath)

\* C6 where the tree was well formed
C6_RecursiveCopyOfWellFormedTree ==
  (RecursiveCopy /\ WellFormed(pre)) =>
    /\ out.err = NoErr
    /\ \A q \in FilesUnder(pre, CallPath) : SameFileAt(pre, q, idb, Rebase(q, CallPath, CallDest))
    /\ SourceUnchanged(CallPath)

\* a directory holding a file and a subdirectory with a file was copied
C6_Witness ==
  /\ RecursiveCopy /\ WellFormed(pre) /\ out.err = NoErr
  /\ CallPath = PathA /\ CallDest = PathB
  /\ IsLiveFile(pre, PathAX) /\ IsLiveFile(pre, PathASY)
  /\ SameFileAt(pre, PathASY, idb, PathBSY)

--------------------------------------------------------------------------
(* C7 *)

SuccessfulMove == call.op = "move" /\ out.err = NoErr /\ pre.open

\* the live records at and below s
LiveAtOrUnder(S, s) == {q \in StoredPaths(S) : IsPrefixPath(s, q) /\ IsLive(S, q)}

\* where the copy of q is, when s is copied to d: a file s goes into a
\* directory-shaped d under its own name, or becomes d
Corresponding(q, s, d) ==
  IF q = s
    THEN (IF guessIfFolderPath(d) THEN joinPath(d, basenameOf(s)) ELSE d)
  ELSE Rebase(q, s, d)

MovedAway(s) ==
  \A q \in LiveAtOrUnder(pre, s) \cup {s} :
    LET st == FM_stat(idb, q, ReadEnv) IN st.err = NoErr /\ st.val = <<>>

MovedFilesReadable(s, d) ==
  \A q \in LiveAtOrUnder(pre, s) :
    pre.db[q].isFile => SameFileAt(pre, q, idb, Corresponding(q, s, d))

\* C7: after a successful move(s, d), stat is null for s and for every former
\* descendant of s, and every file that was at s or under s is readable with
\* the same content at its corresponding path at or under d.
C7_MoveIsCopyThenDelete ==
  SuccessfulMove => (MovedAway(CallPath) /\ MovedFilesReadable(CallPath, CallDest))

\* C7 where the tree was well formed
C7_MoveOfWellFormedTree ==
  (SuccessfulMove /\ WellFormed(pre)) =>
    (MovedAway(CallPath) /\ MovedFilesReadable(CallPath, CallDest))

\* a directory holding a file and a subdirectory with a file was moved
C7_Witness ==
  /\ SuccessfulMove /\ WellFormed(pre)
  /\ CallPath = PathA /\ CallDest = PathB
  /\ IsLiveFile(pre, PathAX) /\ IsLiveFile(pre, PathASY)
  /\ SameFileAt(pre, PathASY, idb, PathBSY)
  /\ ~IsLive(idb, PathASY)

--------------------------------------------------------------------------
(* C8 *)

DirectoryMoved == SuccessfulMove /\ IsLiveDirectory(pre, CallPath)

\* the paths of the snapshot move takes of the source before it moves it
PreMoveSnapshot(a) == MapKeys(FM_listAt(pre, a, TRUE, ReadEnv).val)

InSnapshot(q, a) == \E i \in 1..Len(PreMoveSnapshot(a)) : PreMoveSnapshot(a)[i] = q

\* the live records below b
DescendantsOf(S, b) == {r \in StoredPaths(S) : IsProperPrefixPath(b, r) /\ IsLive(S, r)}

\* b/<rel> with the new root prefix replaced by the old one
OldPathOf(r, a, b) == IF b = <<>> THEN a \o <<SEP>> \o r ELSE a \o SubSeq(r, Len(b) + 1, Len(r))

Emitted(e) == \E i \in 1..Len(out.events) : out.events[i] = e

RenamedEvent(S, r, oldPath) ==
  EvSpecific(IF S.db[r].isDirectory THEN "directory-renamed" ELSE "file-renamed", r, oldPath)

RenamedEventsEmitted(a, b) ==
  /\ Emitted(EvSpecific("directory-renamed", b, <<a>>))
  /\ \A r \in DescendantsOf(idb, b) :
       Emitted(RenamedEvent(idb, r, IF InSnapshot(OldPathOf(r, a, b), a)
                                      THEN <<OldPathOf(r, a, b)>> ELSE <<>>))

\* C8: a successful move(a, b) of a directory emits directory-renamed for b
\* with oldPath a and, for every descendant b/<rel> of the moved tree, a
\* file-renamed or directory-renamed event for b/<rel> whose oldPath is
\* a/<rel> when a/<rel> was in the pre-move snapshot, and null otherwise.
C8_MoveEmitsRenames == DirectoryMoved => RenamedEventsEmitted(CallPath, CallDest)

\* C8 for a destination that is not the root directory
C8_MoveBelowRootEmitsRenames ==
  (DirectoryMoved /\ CallDest # RootPath) => RenamedEventsEmitted(CallPath, CallDest)

\* a directory holding a file and a subdirectory with a file was moved to 'b'
C8_Witness ==
  /\ DirectoryMoved
  /\ CallPath = PathA /\ CallDest = PathB
  /\ IsLiveFile(pre, PathAX) /\ IsLiveFile(pre, PathASY)
  /\ Emitted(EvSpecific("file-renamed", PathBSY, <<PathASY>>))
  /\ Emitted(EvSpecific("directory-renamed", PathBS, <<PathAS>>))

--------------------------------------------------------------------------
(* C9 *)

\* the two steps of the adaptor's move, as the last call found the store
CopyStep == Base_copy(pre, CallPath, CallDest, TRUE, EnvOf(call))

DeleteStep ==
  IF pre.db[CallPath].isDirectory
    THEN Adaptor_rmdir(CopyStep.S, CallPath, EnvOf(call))
  ELSE Adaptor_deleteFile(CopyStep.S, CallPath, EnvOf(call))

\* the last call was a move that got to the adaptor, whose copy step
\* completed and whose deletion step failed
MoveFailedInDeletion ==
  /\ call.op = "move" /\ pre.open
  /\ IsLive(pre, CallPath) /\ ~IsLive(pre, CallDest)
  /\ CopyStep.err = NoErr
  /\ DeleteStep.err \notin {NoErr, Hang}

\* what the copy step wrote is stored as the copy step left it
CopyKept ==
  \A q \in StoredPaths(CopyStep.S) :
    (q \notin StoredPaths(pre) \/ CopyStep.S.db[q] # pre.db[q]) =>
      (q \in StoredPaths(idb) /\ idb.db[q] = CopyStep.S.db[q])

--------------------------------------------------------------------------
(* The two instances driven in lockstep: every call is made on the          *)
(* IndexedDB instance and on the File System Access instance, both created  *)
(* over empty stores.                                                       *)

\* the number of store-changing calls of a lockstep run
MaxClockEq == 2

\* what a File read does when the file changed after the File was obtained
StaleReads == {"data", "error"}

EqPaths == {PathA, PathAX, PathAS}

\* the clock advances with the calls that change either store
TickBoth(S, F) == IF S.db # idb.db \/ F.fs # fsa.fs THEN clock + 1 ELSE clock

InitEq ==
  /\ Returned
  /\ \E g \in BOOLEAN :
       \E c \in {[Call("init") EXCEPT !.granted = g]} :
         \E r \in {FM_init(idb, c.granted)}, rF \in {FM_init(fsa, c.granted)} :
           /\ call' = c
           /\ idb' = r.S
           /\ pre' = idb
           /\ out' = OutOf(r)
           /\ fsa' = rF.S
           /\ preF' = fsa
           /\ outF' = OutOf(rF)
           /\ clock' = TickBoth(r.S, rF.S)

DestroyEq ==
  /\ Returned
  /\ \E c \in {Call("destroy")} :
       \E r \in {FM_destroy(idb)}, rF \in {FM_destroy(fsa)} :
         /\ call' = c
         /\ idb' = r.S
         /\ pre' = idb
         /\ out' = OutOf(r)
         /\ fsa' = rF.S
         /\ preF' = fsa
         /\ outF' = OutOf(rF)
         /\ clock' = TickBoth(r.S, rF.S)

StatEq ==
  /\ Returned
  /\ \E p \in EqPaths :
       \E c \in {[Call("stat") EXCEPT !.path = p]} :
         \E r \in {FM_stat(idb, c.path, EnvOf(c))},
            rF \in {FM_stat(fsa, c.path, EnvOf(c))} :
           /\ call' = c
           /\ idb' = r.S
           /\ pre' = idb
           /\ out' = OutOf(r)
           /\ fsa' = rF.S
           /\ preF' = fsa
           /\ outF' = OutOf(rF)
           /\ clock' = TickBoth(r.S, rF.S)

ListEq ==
  /\ Returned
  /\ \E p \in {RootPath, PathA}, rec \in BOOLEAN :
       \E c \in {[Call("list") EXCEPT !.path = p, !.recursive = rec]} :
         \E r \in {FM_list(idb, c.path, c.recursive, EnvOf(c))},
            rF \in {FM_list(fsa, c.path, c.recursive, EnvOf(c))} :
           /\ call' = c
           /\ idb' = r.S
           /\ pre' = idb
           /\ out' = OutOf(r)
           /\ fsa' = rF.S
           /\ preF' = fsa
           /\ outF' = OutOf(rF)
           /\ clock' = TickBoth(r.S, rF.S)

ReadFileEq ==
  /\ Returned
  /\ \E p \in {PathAX}, s \in StaleReads :
       \E c \in {[Call("readFile") EXCEPT !.path = p, !.onStale = s]} :
         \E r \in {FM_readFile(idb, c.path, c.encoding, EnvOf(c))},
            rF \in {FM_readFile(fsa, c.path, c.encoding, EnvOf(c))} :
           /\ call' = c
           /\ idb' = r.S
           /\ pre' = idb
           /\ out' = OutOf(r)
           /\ fsa' = rF.S
           /\ preF' = fsa
           /\ outF' = OutOf(rF)
           /\ clock' = TickBoth(r.S, rF.S)

WriteFileEq ==
  /\ Returned
  /\ clock < MaxClockEq
  /\ \E p \in {PathAX} :
       \E content \in {[type |-> "buffer", value |-> BytesHi],
                       [type |-> "buffer", value |-> BytesBad]} :
         \E c \in {[Call("writeFile") EXCEPT !.path = p, !.content = content]} :
           \E r \in {FM_writeFile(idb, c.path, c.content, c.encoding, EnvOf(c))},
              rF \in {FM_writeFile(fsa, c.path, c.content, c.encoding, EnvOf(c))} :
             /\ call' = c
             /\ idb' = r.S
             /\ pre' = idb
             /\ out' = OutOf(r)
             /\ fsa' = rF.S
             /\ preF' = fsa
             /\ outF' = OutOf(rF)
             /\ clock' = TickBoth(r.S, rF.S)

DeleteFileEq ==
  /\ Returned
  /\ clock < MaxClockEq
  /\ \E p \in {PathAX} :
       \E c \in {[Call("deleteFile") EXCEPT !.path = p]} :
         \E r \in {FM_deleteFile(idb, c.path, EnvOf(c))},
            rF \in {FM_deleteFile(fsa, c.path, EnvOf(c))} :
           /\ call' = c
           /\ idb' = r.S
           /\ pre' = idb
           /\ out' = OutOf(r)
           /\ fsa' = rF.S
           /\ preF' = fsa
           /\ outF' = OutOf(rF)
           /\ clock' = TickBoth(r.S, rF.S)

MkdirEq ==
  /\ Returned
  /\ clock < MaxClockEq
  /\ \E p \in {PathA, PathAS} :
       \E c \in {[Call("mkdir") EXCEPT !.path = p]} :
         \E r \in {FM_mkdir(idb, c.path, EnvOf(c))},
            rF \in {FM_mkdir(fsa, c.path, EnvOf(c))} :
           /\ call' = c
           /\ idb' = r.S
           /\ pre' = idb
           /\ out' = OutOf(r)
           /\ fsa' = rF.S
           /\ preF' = fsa
           /\ outF' = OutOf(rF)
           /\ clock' = TickBoth(r.S, rF.S)

RmdirEq ==
  /\ Returned
  /\ clock < MaxClockEq
  /\ \E p \in {PathA, PathAS}, rec \in BOOLEAN :
       \E c \in {[Call("rmdir") EXCEPT !.path = p, !.recursive = rec]} :
         \E r \in {FM_rmdir(idb, c.path, c.recursive, EnvOf(c))},
            rF \in {FM_rmdir(fsa, c.path, c.recursive, EnvOf(c))} :
           /\ call' = c
           /\ idb' = r.S
           /\ pre' = idb
           /\ out' = OutOf(r)
           /\ fsa' = rF.S
           /\ preF' = fsa
           /\ outF' = OutOf(rF)
           /\ clock' = TickBoth(r.S, rF.S)

CopyEq ==
  /\ Returned
  /\ clock < MaxClockEq
  /\ \E p \in {PathA, PathAX}, d \in {PathB}, s \in StaleReads :
       \E c \in {[Call("copy") EXCEPT !.path = p, !.dest = d, !.recursive = TRUE, !.onStale = s]} :
         \E r \in {FM_copy(idb, c.path, c.dest, c.recursive, EnvOf(c))},
            rF \in {FM_copy(fsa, c.path, c.dest, c.recursive, EnvOf(c))} :
           /\ call' = c
           /\ idb' = r.S
           /\ pre' = idb
           /\ out' = OutOf(r)
           /\ fsa' = rF.S
           /\ preF' = fsa
           /\ outF' = OutOf(rF)
           /\ clock' = TickBoth(r.S, rF.S)

MoveEq ==
  /\ Returned
  /\ clock < MaxClockEq
  /\ \E p \in {PathA, PathAX}, d \in {PathB}, s \in StaleReads :
       \E c \in {[Call("move") EXCEPT !.path = p, !.dest = d, !.onStale = s]} :
         \E r \in {FM_move(idb, c.path, c.dest, EnvOf(c))},
            rF \in {FM_move(fsa, c.path, c.dest, EnvOf(c))} :
           /\ call' = c
           /\ idb' = r.S
           /\ pre' = idb
           /\ out' = OutOf(r)
           /\ fsa' = rF.S
           /\ preF' = fsa
           /\ outF' = OutOf(rF)
           /\ clock' = TickBoth(r.S, rF.S)

NextEq ==
  \/ InitEq
  \/ DestroyEq
  \/ StatEq
  \/ ListEq
  \/ ReadFileEq
  \/ WriteFileEq
  \/ DeleteFileEq
  \/ MkdirEq
  \/ RmdirEq
  \/ CopyEq
  \/ MoveEq

SpecEq == Init /\ [][NextEq]_vars

--------------------------------------------------------------------------
(* C10 *)

\* of a stat, what both backends can tell: path, kind and size
StatView(st) ==
  [path |-> st.path, isDirectory |-> st.isDirectory, isFile |-> st.isFile, size |-> st.size]

\* what the caller of c observes of its outcome o
Observed(c, o) ==
  IF o.err # NoErr THEN [ok |-> FALSE, val |-> <<>>]
  ELSE [ok |-> TRUE,
        val |-> CASE c.op = "stat" ->
                       (IF o.val = <<>> THEN <<>> ELSE <<StatView(o.val[1])>>)
                  [] c.op = "list" ->
                       {<<o.val[i][1], StatView(o.val[i][2])>> : i \in 1..Len(o.val)}
                  [] c.op = "readFile" -> o.val
                  [] OTHER -> <<>>]

\* C10: from empty stores, every sequence of orchestrator calls has the same
\* outcome on the IndexedDB and on the File System Access instance: both
\* succeed or both fail, with the same stats (path, kind, size), the same
\* list keys and the same file contents.
C10_BackendsEquivalent ==
  /\ Observed(call, out).ok = Observed(call, outF).ok
  /\ Observed(call, out).ok => Observed(call, out).val = Observed(call, outF).val

\* both instances hold a written file and stat its directory alike
C10_Witness ==
  /\ call.op = "stat" /\ out.err = NoErr /\ outF.err = NoErr
  /\ out.val # <<>> /\ outF.val # <<>>
  /\ StatView(out.val[1]) = StatView(outF.val[1])
  /\ IsLiveFile(idb, PathAX) /\ NativeIsFile(fsa.fs, <<<<"a">>, <<"x.t">>>>)

\* a file written on both instances is read back on one and not on the other
C10_ReadAfterWriteDiffers ==
  /\ call.op = "readFile" /\ out.err = NoErr /\ outF.err = "Cannot read a directory."
  /\ IsLiveFile(idb, PathAX) /\ NativeIsFile(fsa.fs, <<<<"a">>, <<"x.t">>>>)

--------------------------------------------------------------------------
(* C11 *)

\* a byte payload was written through the File System Access instance
BufferWrittenF == call.op = "writeFile" /\ outF.err = NoErr /\ call.content.type = "buffer"

\* where the File System Access API keeps the entry of a canonical path
LocOf(p) == split(p)

\* C11: on the File System Access backend, right after a successful
\* orchestrator writeFile(p, b) of a byte payload b, the adaptor's readFile(p)
\* returns exactly b and the orchestrator's readFile(p) succeeds with a text
\* whose bytes (read as latin1, which loses nothing) are exactly b.
C11_FsaWriteReadRoundTrip ==
  BufferWrittenF =>
    LET b == call.content.value
        raw == Adaptor_readFile(fsa, CallPath, ReadEnv)
        r == FM_readFile(fsa, call.path, "latin1", ReadEnv)
    IN /\ raw.err = NoErr
       /\ raw.val = b
       /\ r.err = NoErr
       /\ bufferFrom(r.val, "latin1") = b

\* the write of a new file went through: the entry holds the payload
C11_Witness ==
  /\ BufferWrittenF
  /\ NativeIsFile(fsa.fs, LocOf(CallPath))
  /\ fsa.fs[LocOf(CallPath)].data = call.content.value
  /\ outF.events # <<>>

\* the path of the file just written resolves to the handle of its directory
C11_WrittenPathIsDirectory ==
  /\ BufferWrittenF
  /\ NativeIsFile(fsa.fs, LocOf(CallPath))
  /\ CallPath \in DOMAIN fsa.pathCache
  /\ fsa.pathCache[CallPath].kind = "directory"
  /\ FM_readFile(fsa, call.path, "latin1", ReadEnv).err = "Cannot read a directory."
  /\ Adaptor_readFile(fsa, CallPath, ReadEnv).err = "Not a file"

--------------------------------------------------------------------------
(* C12 *)

\* the non-empty prefixes of a canonical path, the path itself included
Prefixes(p) == {join(SubSeq(split(p), 1, i)) : i \in 1..Len(split(p))}

\* multi-segment paths a caller may make directories of
DeepPaths == {PathAS, PathBS, PathBSY, PathASY}

\* a prefix of p is a file: a live record (IndexedDB), an entry (File System
\* Access)
FileOnTheWay(S, p) ==
  \E q \in Prefixes(p) :
    IF S.type = "indexed-db" THEN IsLiveFile(S, q) ELSE NativeIsFile(S.fs, LocOf(q))

StatsAsDirectory(S, q) ==
  LET st == Adaptor_stat(S, q, ReadEnv)
  IN st.err = NoErr /\ st.val # <<>> /\ st.val[1].isDirectory

\* the adaptor's mkdir(p) succeeds and every prefix of p is then a directory
MkdirMakesAll(S, p) ==
  LET made == Adaptor_mkdir(S, p, ReadEnv)
  IN made.err = NoErr /\ \A q \in Prefixes(p) : StatsAsDirectory(made.S, q)

\* on IndexedDB: tombstoned prefixes come back as directories, and the
\* records of live directories are left as they are
MkdirRevivesAndKeeps(S, p) ==
  LET made == Adaptor_mkdir(S, p, ReadEnv)
  IN \A q \in Prefixes(p) :
       /\ IsTombstone(S, q) => IsLiveDirectory(made.S, q)
       /\ IsLiveDirectory(S, q) => RecordOf(made.S, q) = RecordOf(S, q)

\* C12: on every backend, mkdir(p) of a multi-segment path p none of whose
\* prefixes is a live file succeeds, whatever ancestors are missing, and
\* every non-empty prefix of p then stats as a directory; on IndexedDB a
\* tombstoned prefix is revived as a directory and a live directory is left
\* untouched.
C12_MkdirCreatesAncestors ==
  \A p \in DeepPaths :
    /\ (Initialized(idb) /\ ~FileOnTheWay(idb, p)) =>
         MkdirMakesAll(idb, p) /\ MkdirRevivesAndKeeps(idb, p)
    /\ (Initialized(fsa) /\ ~FileOnTheWay(fsa, p)) => MkdirMakesAll(fsa, p)

\* the part of C12 about the IndexedDB backend
C12_IdbMkdirCreatesAncestors ==
  \A p \in DeepPaths :
    (Initialized(idb) /\ ~FileOnTheWay(idb, p)) =>
      MkdirMakesAll(idb, p) /\ MkdirRevivesAndKeeps(idb, p)

\* mkdir('a/s') was called with 'a' missing on both instances: the IndexedDB
\* instance made both directories
C12_Witness ==
  /\ call.op = "mkdir" /\ CallPath = PathAS
  /\ Initialized(pre) /\ Initialized(preF)
  /\ RecordOf(pre, PathA) = <<>> /\ ~NativeIsDirectory(preF.fs, LocOf(PathA))
  /\ out.err = NoErr
  /\ IsLiveDirectory(idb, PathA) /\ IsLiveDirectory(idb, PathAS)

\* the same call on the File System Access instance fails and makes nothing
C12_FsaMkdirNeedsParent ==
  /\ C12_Witness
  /\ outF.err = "NotFoundError"
  /\ fsa.fs = preF.fs

--------------------------------------------------------------------------
(* C13 *)

\* the paths a backend's mkdir is called with, twice in a row
MkdirTwicePaths == {PathA, PathB} \cup DeepPaths

\* the second call is made later than the first
LaterEnv == [now |-> clock + 2, onStale |-> "data", fault |-> <<>>]

\* what stat and list tell of every path
TreeView(S) ==
  [q \in AllPaths |->
     LET st == Adaptor_stat(S, q, LaterEnv)
         ls == Adaptor_list(S, q, LaterEnv)
     IN [stat |-> <<st.err, st.val>>, list |-> <<ls.err, ls.val>>]]

\* mkdir(p) and mkdir(p) again: neither fails, and the second changes nothing
\* that is stored or that stat and list tell
MkdirTwice(S, p) ==
  LET first == Adaptor_mkdir(S, p, ReadEnv)
      second == Adaptor_mkdir(first.S, p, LaterEnv)
  IN /\ first.err = NoErr
     /\ second.err = NoErr
     /\ TreeView(second.S) = TreeView(first.S)
     /\ S.type = "indexed-db" => second.S.db = first.S.db
     /\ S.type = "fsa-api" => second.S.fs = first.S.fs

\* C13: the backend's mkdir(p) is idempotent: of two calls in succession
\* neither fails, and stat and list of every path (createdTime included) are
\* after the second call what they were after the first.
C13_MkdirIdempotent ==
  \A p \in MkdirTwicePaths :
    /\ Initialized(idb) => MkdirTwice(idb, p)
    /\ Initialized(fsa) => MkdirTwice(fsa, p)

\* the part of C13 about the IndexedDB backend
C13_IdbMkdirIdempotent ==
  \A p \in MkdirTwicePaths : Initialized(idb) => MkdirTwice(idb, p)

\* a directory made one tick ago is kept, creation time and all, by two more
\* mkdir of it on IndexedDB; the File System Access instance has no 'a'
C13_Witness ==
  /\ call.op = "mkdir" /\ CallPath = PathAS /\ out.err = NoErr
  /\ MkdirTwice(idb, PathAS)
  /\ RecordOf(Adaptor_mkdir(idb, PathAS, LaterEnv).S, PathAS)[1].createdTime = <<call.now>>
  /\ Initialized(fsa) /\ ~NativeIsDirectory(fsa.fs, LocOf(PathA))

\* there, both calls of mkdir('a/s') on the File System Access adaptor fail
C13_FsaBothCallsFail ==
  /\ C13_Witness
  /\ Adaptor_mkdir(fsa, PathAS, ReadEnv).err = "NotFoundError"
  /\ Adaptor_mkdir(Adaptor_mkdir(fsa, PathAS, ReadEnv).S, PathAS, LaterEnv).err
       = "NotFoundError"

--------------------------------------------------------------------------
(* C14 *)

\* mkdir(p) is refused as it finds S: nothing is changed, nothing is emitted
MkdirRejected(S, p) ==
  LET r == FM_mkdir(S, p, ReadEnv)
  IN r.err = "Directory already exists." /\ r.S = S /\ r.events = <<>>

\* the last call was mkdir of a path that was a live file or directory
MkdirOfExisting ==
  /\ call.op = "mkdir"
  /\ cleanPath(call.path).err = NoErr
  /\ pre.open
  /\ IsLive(pre, CallPath)

\* C14: the orchestrator's mkdir(p) of a path that resolves to a live file or
\* directory fails with 'Directory already exists.', changes no record and
\* emits no event; so the second of two successive mkdir(p) fails.
C14_MkdirOfExistingRejected ==
  /\ idb.open =>
       \A p \in AllPaths \cup {PathAXRaw} :
         IsLive(idb, cleanPath(p).val) => MkdirRejected(idb, p)
  /\ MkdirOfExisting =>
       out.err = "Directory already exists." /\ idb = pre /\ out.events = <<>>
  /\ (call.op = "mkdir" /\ out.err = NoErr) => MkdirRejected(idb, call.path)

\* mkdir('a') was refused because 'a' is a directory, and mkdir of the file
\* in it would be refused as well
C14_Witness ==
  /\ MkdirOfExisting
  /\ CallPath = PathA
  /\ IsLiveDirectory(pre, PathA)
  /\ out.err = "Directory already exists."
  /\ IsLiveFile(idb, PathAX)
  /\ MkdirRejected(idb, PathAXRaw)

\* a mkdir that succeeded is refused when repeated
C14_SecondMkdirFails ==
  /\ call.op = "mkdir" /\ out.err = NoErr
  /\ IsLiveDirectory(idb, CallPath)
  /\ MkdirRejected(idb, call.path)

--------------------------------------------------------------------------
(* C15 *)

\* the last call was refused as it found the store: nothing changed, no event
RefusedWith(msg) == out.err = msg /\ idb = pre /\ out.events = <<>>

\* the last call was a move of a live source onto a live file or directory
MoveOntoExisting ==
  /\ call.op = "move"
  /\ pre.open
  /\ IsLive(pre, CallPath)
  /\ IsLive(pre, CallDest)

\* the last call was a move of a path that is absent or tombstoned
MoveOfAbsent ==
  /\ call.op = "move"
  /\ pre.open
  /\ ~IsLive(pre, CallPath)

\* C15: the orchestrator's move(s, d) onto a d that resolves to a live file
\* or directory fails with 'Destination already exists.' before the backend
\* is changed: source, destination and every other record are as they were
\* and no event is emitted; a move whose source is absent fails with 'Source
\* not found.' in the same way (the source is looked at first).
C15_MoveOntoExistingRejected ==
  /\ MoveOntoExisting => RefusedWith("Destination already exists.")
  /\ MoveOfAbsent => RefusedWith("Source not found.")

\* a move of a live file onto a live file was refused, and both are kept
C15_Witness ==
  /\ MoveOntoExisting
  /\ IsLiveFile(pre, CallPath) /\ IsLiveFile(pre, CallDest)
  /\ out.err = "Destination already exists."
  /\ IsLiveFile(idb, CallPath) /\ IsLiveFile(idb, CallDest)

\* a move of a deleted file onto an existing directory reports the source
C15_AbsentSourceFirst ==
  /\ MoveOfAbsent
  /\ IsTombstone(pre, CallPath)
  /\ IsLiveDirectory(pre, CallDest)
  /\ out.err = "Source not found."

--------------------------------------------------------------------------
(* C16 *)

\* the call with outcome r was refused with msg as it found S: S is as it
\* was and nothing was emitted
Rejected(r, S, msg) == r.err = msg /\ r.S = S /\ r.events = <<>>

\* the ways a caller may spell the paths of the runs
SpelledPaths == AllPaths \cup {PathAXRaw}

\* the messages of the kind and existence checks
CheckMessages ==
  {"File not found.", "Cannot read a directory.", "Cannot write to a directory.",
   "Cannot delete a directory.", "Directory not found.", "Cannot delete a file.",
   "Source not found."}

\* what the calls on an absent or tombstoned path come to
AbsentRejected(S, p) ==
  /\ \A e \in Encodings : Rejected(FM_readFile(S, p, e, ReadEnv), S, "File not found.")
  /\ Rejected(FM_deleteFile(S, p, ReadEnv), S, "File not found.")
  /\ \A rec \in BOOLEAN :
       /\ Rejected(FM_rmdir(S, p, rec, ReadEnv), S, "Directory not found.")
       /\ \A d \in DestinationPaths :
            Rejected(FM_copy(S, p, d, rec, ReadEnv), S, "Source not found.")

\* what the file calls on a directory come to
DirectoryRejected(S, p) ==
  /\ \A e \in Encodings :
       Rejected(FM_readFile(S, p, e, ReadEnv), S, "Cannot read a directory.")
  /\ \A content \in Contents :
       Rejected(FM_writeFile(S, p, content, "utf-8", ReadEnv), S,
                "Cannot write to a directory.")
  /\ Rejected(FM_deleteFile(S, p, ReadEnv), S, "Cannot delete a directory.")

\* what rmdir of a file comes to
FileRejected(S, p) ==
  \A rec \in BOOLEAN : Rejected(FM_rmdir(S, p, rec, ReadEnv), S, "Cannot delete a file.")

\* C16: an orchestrator call refused by a kind or existence check leaves the
\* store exactly as it was and emits no event: readFile of an absent path or
\* of a directory, writeFile onto a directory, deleteFile of an absent path or
\* of a directory, rmdir of an absent path or of a file, copy of an absent
\* source.
C16_RejectedCallsChangeNothing ==
  /\ idb.open =>
       \A p \in SpelledPaths :
         /\ ~IsLive(idb, cleanPath(p).val) => AbsentRejected(idb, p)
         /\ IsLiveDirectory(idb, cleanPath(p).val) => DirectoryRejected(idb, p)
         /\ IsLiveFile(idb, cleanPath(p).val) => FileRejected(idb, p)
  /\ (call.op \in {"readFile", "writeFile", "deleteFile", "rmdir", "copy"}
        /\ out.err \in CheckMessages) =>
       idb = pre /\ out.events = <<>>

\* deleteFile of a directory was refused; rmdir of the file in it and the
\* calls on a path never written would be refused as well
C16_Witness ==
  /\ call.op = "deleteFile"
  /\ IsLiveDirectory(pre, CallPath)
  /\ out.err = "Cannot delete a directory."
  /\ idb = pre /\ out.events = <<>>
  /\ \E p \in AllPaths : IsLiveFile(idb, p) /\ FileRejected(idb, p)
  /\ \E p \in AllPaths : RecordOf(idb, p) = <<>> /\ AbsentRejected(idb, p)

--------------------------------------------------------------------------
(* C17 *)

\* the message of an adaptor that is not initialized
NotInitialized(S) ==
  IF S.type = "indexed-db" THEN "Adaptor is not initialized." ELSE "Adaptor not initialized"

\* an adaptor call with outcome r failed for want of init and left S alone
AdaptorRefuses(r, S) == r.err = NotInitialized(S) /\ r.S = S

\* an orchestrator call likewise, with no event
OrchestratorRefuses(r, S) == r.err = NotInitialized(S) /\ r.S = S /\ r.events = <<>>

\* every data operation of the adaptor, on the paths of the runs
AdaptorOpsRefused(S) ==
  \A p \in AllPaths :
    /\ AdaptorRefuses(Adaptor_stat(S, p, ReadEnv), S)
    /\ AdaptorRefuses(Adaptor_readFile(S, p, ReadEnv), S)
    /\ AdaptorRefuses(Adaptor_writeFile(S, p, BytesHi, ReadEnv), S)
    /\ AdaptorRefuses(Adaptor_deleteFile(S, p, ReadEnv), S)
    /\ AdaptorRefuses(Adaptor_list(S, p, ReadEnv), S)
    /\ AdaptorRefuses(Adaptor_mkdir(S, p, ReadEnv), S)
    /\ AdaptorRefuses(Adaptor_rmdir(S, p, ReadEnv), S)
    /\ \A d \in DestinationPaths :
         /\ \A rec \in BOOLEAN : AdaptorRefuses(Base_copy(S, p, d, rec, ReadEnv), S)
         /\ AdaptorRefuses(Base_move(S, p, d, ReadEnv), S)

\* every data operation of the orchestrator, on the paths of the runs
OrchestratorOpsRefused(S) ==
  \A p \in SpelledPaths :
    /\ OrchestratorRefuses(FM_stat(S, p, ReadEnv), S)
    /\ \A e \in Encodings : OrchestratorRefuses(FM_readFile(S, p, e, ReadEnv), S)
    /\ \A content \in Contents :
         OrchestratorRefuses(FM_writeFile(S, p, content, "utf-8", ReadEnv), S)
    /\ OrchestratorRefuses(FM_deleteFile(S, p, ReadEnv), S)
    /\ OrchestratorRefuses(FM_mkdir(S, p, ReadEnv), S)
    /\ \A rec \in BOOLEAN :
         /\ OrchestratorRefuses(FM_list(S, p, rec, ReadEnv), S)
         /\ OrchestratorRefuses(FM_rmdir(S, p, rec, ReadEnv), S)
         /\ \A d \in DestinationPaths :
              OrchestratorRefuses(FM_copy(S, p, d, rec, ReadEnv), S)
    /\ \A d \in DestinationPaths : OrchestratorRefuses(FM_move(S, p, d, ReadEnv), S)

DataOps ==
  {"stat", "readFile", "writeFile", "deleteFile", "list", "mkdir", "rmdir", "copy", "move"}

\* C17: on the IndexedDB and the File System Access backend isInitialized is
\* false before init and after destroy and true after an init that succeeded
\* (or that the substrate granted); every data operation made while it is
\* false fails with the adaptor's not-initialized error, changes nothing that
\* is stored and emits nothing.
C17_UninitializedRefusesAll ==
  /\ call.op = "new" => ~Initialized(idb) /\ ~Initialized(fsa)
  /\ call.op = "destroy" => ~Initialized(idb) /\ ~Initialized(fsa)
  /\ (call.op = "init" /\ (out.err = NoErr \/ call.granted)) => Initialized(idb)
  /\ (call.op = "init" /\ (outF.err = NoErr \/ call.granted)) => Initialized(fsa)
  /\ ~Initialized(idb) => AdaptorOpsRefused(idb) /\ OrchestratorOpsRefused(idb)
  /\ ~Initialized(fsa) => AdaptorOpsRefused(fsa) /\ OrchestratorOpsRefused(fsa)
  /\ (call.op \in DataOps /\ ~Initialized(pre)) =>
       out.err = NotInitialized(pre) /\ idb = pre /\ out.events = <<>>
  /\ (call.op \in DataOps /\ ~Initialized(preF)) =>
       outF.err = NotInitialized(preF) /\ fsa = preF /\ outF.events = <<>>

\* a read made after destroy was refused on both instances, which had been
\* initialized and still hold the file
C17_Witness ==
  /\ call.op = "readFile"
  /\ ~Initialized(pre) /\ ~Initialized(preF)
  /\ out.err = "Adaptor is not initialized." /\ outF.err = "Adaptor not initialized"
  /\ IsLiveFile(idb, PathAX) /\ NativeIsFile(fsa.fs, LocOf(PathAX))
  /\ idb = pre /\ fsa = preF

\* init on the File System Access instance succeeded and it is initialized
C17_InitializedAfterInit ==
  /\ call.op = "init" /\ outF.err = NoErr
  /\ ~Initialized(preF) /\ Initialized(fsa)
  /\ NativeIsFile(fsa.fs, LocOf(PathAX))

\* init on the IndexedDB instance opened the database and rejected
C17_IdbInitRejects ==
  /\ call.op = "init" /\ call.granted
  /\ ~Initialized(pre) /\ Initialized(idb)
  /\ out.err = "TypeError"

--------------------------------------------------------------------------
(* Path normalization: a caller passes paths as it likes to spell them.     *)
(* After init, the caller stats raw paths and makes directories of them.    *)

\* the longest raw path, in tokens
MaxRawLen == 3

\* the directories made of raw paths in one run
MaxRawMkdirs == 1

RawTokens == {SEP, "a", "x.t", "..", "x..t"}

RawPaths == UNION {[1..n -> RawTokens] : n \in 0..MaxRawLen}

StatRaw ==
  /\ Returned
  /\ \E p \in RawPaths :
       \E c \in {[Call("stat") EXCEPT !.path = p]} :
         \E r \in {FM_stat(idb, c.path, EnvOf(c))} :
           /\ call' = c
           /\ idb' = r.S
           /\ pre' = idb
           /\ out' = OutOf(r)
           /\ clock' = Tick(r.S)
           /\ UNCHANGED <<fsa, outF, preF>>

MkdirRaw ==
  /\ Returned
  /\ clock < MaxRawMkdirs
  /\ \E p \in RawPaths :
       \E c \in {[Call("mkdir") EXCEPT !.path = p]} :
         \E r \in {FM_mkdir(idb, c.path, EnvOf(c))} :
           /\ call' = c
           /\ idb' = r.S
           /\ pre' = idb
           /\ out' = OutOf(r)
           /\ clock' = Tick(r.S)
           /\ UNCHANGED <<fsa, outF, preF>>

NextRaw ==
  \/ DoInit
  \/ StatRaw
  \/ MkdirRaw

SpecRaw == Init /\ [][NextRaw]_vars

--------------------------------------------------------------------------
(* C18 *)

\* one of the segments of the path is '..'
HasParentSegment(p) == \E i \in 1..Len(split(p)) : split(p)[i] = <<"..">>

\* no leading or trailing separator and no empty segment; the root is ""
Normalized(p) == p = <<>> \/ \A i \in 1..Len(split(p)) : split(p)[i] # <<>>

\* what normalization makes of a raw path it accepts
NormalizesWell(raw) ==
  LET c == cleanPath(raw)
  IN /\ c.err = NoErr
     /\ Normalized(c.val)
     /\ filterTruthy(split(c.val)) = filterTruthy(split(raw))
     /\ raw \in {<<>>, <<SEP>>} => c.val = <<>>
     /\ Normalized(raw) => c.val = raw
     /\ cleanPath(c.val) = c

\* every orchestrator call refuses the path before the adaptor is reached
AllCallsRefuse(S, p) ==
  /\ Rejected(FM_stat(S, p, ReadEnv), S, "Invalid path.")
  /\ Rejected(FM_readFile(S, p, "utf-8", ReadEnv), S, "Invalid path.")
  /\ Rejected(FM_writeFile(S, p, [type |-> "buffer", value |-> BytesHi], "utf-8", ReadEnv),
              S, "Invalid path.")
  /\ Rejected(FM_deleteFile(S, p, ReadEnv), S, "Invalid path.")
  /\ Rejected(FM_mkdir(S, p, ReadEnv), S, "Invalid path.")
  /\ \A rec \in BOOLEAN :
       /\ Rejected(FM_list(S, p, rec, ReadEnv), S, "Invalid path.")
       /\ Rejected(FM_rmdir(S, p, rec, ReadEnv), S, "Invalid path.")
       /\ Rejected(FM_copy(S, p, PathB, rec, ReadEnv), S, "Invalid path.")
       /\ Rejected(FM_copy(S, PathA, p, rec, ReadEnv), S, "Invalid path.")
  /\ Rejected(FM_move(S, p, PathB, ReadEnv), S, "Invalid path.")
  /\ Rejected(FM_move(S, PathA, p, ReadEnv), S, "Invalid path.")

\* the last call was stat or mkdir of a raw path
RawCall == call.op \in {"stat", "mkdir"}

\* C18: a path with a '..' segment is refused with 'Invalid path.' by every
\* orchestrator call before the adaptor is called; any other path is
\* normalized: no leading or trailing separator, no empty segment, "" for
\* the empty path and for a bare separator, and a normalized path is left
\* as it is; the adaptor gets the normalized path.
C18_PathsNormalized ==
  RawCall =>
    IF HasParentSegment(call.path)
      THEN RefusedWith("Invalid path.") /\ AllCallsRefuse(idb, call.path)
    ELSE /\ NormalizesWell(call.path)
         /\ out.err # "Invalid path."
         /\ (call.op = "mkdir" /\ out.err = NoErr) => IsLiveDirectory(idb, CallPath)
         /\ \A q \in StoredPaths(idb) : Normalized(q)

\* what the code does: the path is refused when its text contains '..'
\* anywhere, and normalized otherwise
C18_DotDotAnywhereRefused ==
  RawCall =>
    IF includesDotDot(call.path)
      THEN RefusedWith("Invalid path.") /\ AllCallsRefuse(idb, call.path)
    ELSE /\ NormalizesWell(call.path)
         /\ out.err # "Invalid path."
         /\ (call.op = "mkdir" /\ out.err = NoErr) => IsLiveDirectory(idb, CallPath)
         /\ \A q \in StoredPaths(idb) : Normalized(q)

\* mkdir('/a/') made the directory 'a'
C18_Witness ==
  /\ call.op = "mkdir"
  /\ call.path = <<SEP, "a", SEP>>
  /\ out.err = NoErr
  /\ CallPath = PathA
  /\ StoredPaths(idb) = {PathA}

\* a file name with two dots in a row is refused, though no segment is '..'
C18_TwoDotsInNameRefused ==
  /\ RawCall
  /\ call.path = <<"a", SEP, "x..t">>
  /\ ~HasParentSegment(call.path)
  /\ out.err = "Invalid path."

--------------------------------------------------------------------------
(* C19 *)

MutatingOps == {"writeFile", "deleteFile", "mkdir", "rmdir", "copy", "move"}

\* the last call was a mutating call of the orchestrator
MutatingCall == call.op \in MutatingOps

\* the path the events of the last call are about
BatchRoot == IF call.op \in {"copy", "move"} THEN CallDest ELSE CallPath

\* the positions of the paths-changed events of the last call
PathsChangedAt == {i \in 1..Len(out.events) : out.events[i].name = "paths-changed"}

\* the last event of the last call
LastEvent == out.events[Len(out.events)]

\* the call made, removed or rewrote the record of q
Touched(q) == RecordOf(pre, q) # RecordOf(idb, q)

\* the copy wrote q: q is the place of an entry of the source directory that
\* a copy takes along, the files in it and, when recursive, all below it
CopiedTo(q) ==
  /\ call.op = "copy"
  /\ \E s \in StoredPaths(pre) :
       /\ IsLive(pre, s)
       /\ IsProperPrefixPath(CallPath, s)
       /\ call.recursive \/ (pre.db[s].isFile /\ pre.db[s].parentPath = CallPath)
       /\ q = Rebase(s, CallPath, CallDest)
       /\ IsLive(idb, q)
       /\ idb.db[q].isFile = pre.db[s].isFile

\* the paths below the root of the call that it touched; a move also
\* touches what it moved away, which is reported as the old path
AffectedDescendants ==
  {q \in StoredPaths(pre) \cup StoredPaths(idb) :
     /\ IsProperPrefixPath(BatchRoot, q)
     /\ Touched(q) \/ CopiedTo(q)
     /\ call.op = "move" => ~IsPrefixPath(CallPath, q)}

\* one paths-changed event, the last one, root first, changes aligned
OneAlignedBatch ==
  /\ Cardinality(PathsChangedAt) = 1
  /\ Len(out.events) \in PathsChangedAt
  /\ Len(LastEvent.paths) >= 1
  /\ LastEvent.paths[1] = BatchRoot
  /\ Len(LastEvent.changes) = Len(LastEvent.paths)
  /\ \A i \in 1..Len(LastEvent.paths) : LastEvent.changes[i].path = LastEvent.paths[i]
  /\ \A i, j \in 1..Len(LastEvent.paths) : LastEvent.paths[i] = LastEvent.paths[j] => i = j

\* the paths of the batch after the root
ListedDescendants == {LastEvent.paths[i] : i \in 2..Len(LastEvent.paths)}

\* C19: a successful mutating call emits exactly one paths-changed event, as
\* its last event; its paths are the root path followed by the affected
\* descendants and changes[i].path = paths[i]; a failing call emits no
\* paths-changed event.
C19_OneBatchPerCall ==
  MutatingCall =>
    IF out.err = NoErr
      THEN OneAlignedBatch /\ ListedDescendants = AffectedDescendants
    ELSE PathsChangedAt = {}

\* C19 without the statement about which descendants are listed
C19_OneAlignedBatchPerCall ==
  MutatingCall => IF out.err = NoErr THEN OneAlignedBatch ELSE PathsChangedAt = {}

\* a recursive rmdir of a directory with a file and a subdirectory listed
\* the directory and then everything under it
C19_Witness ==
  /\ call.op = "rmdir" /\ call.recursive /\ out.err = NoErr
  /\ CallPath = PathA
  /\ IsLiveFile(pre, PathAX) /\ IsLiveDirectory(pre, PathAS)
  /\ OneAlignedBatch
  /\ ListedDescendants = AffectedDescendants
  /\ {PathAX, PathAS} \subseteq ListedDescendants

\* the file 'a/x.t' was copied into the directory 'b': the batch lists 'b'
\* alone, and the new file 'b/x.t' is in no event
C19_CopiedFileNotListed ==
  /\ call.op = "copy" /\ out.err = NoErr
  /\ CallPath = PathAX /\ CallDest = PathB
  /\ ~IsLive(pre, PathBX) /\ IsLiveFile(idb, PathBX)
  /\ LastEvent.paths = <<PathB>>

\* 'a' was copied onto the root: the batch lists 'a' itself, which the copy
\* left as it was
C19_UntouchedListed ==
  /\ call.op = "copy" /\ out.err = NoErr
  /\ CallPath = PathA /\ CallDest = RootPath
  /\ ~Touched(PathA)
  /\ PathA \in ListedDescendants

--------------------------------------------------------------------------
(* C20 *)

\* the last call was a successful rmdir, copy or move of a directory
DirectoryScoped ==
  /\ call.op \in {"rmdir", "copy", "move"}
  /\ out.err = NoErr
  /\ IsLiveDirectory(pre, CallPath)

\* the action the events of the last call carry
CallAction ==
  CASE call.op = "rmdir" -> "deleted"
    [] call.op = "copy"  -> "added"
    [] call.op = "move"  -> "renamed"
    [] OTHER             -> "modified"

\* the positions of the file-changed and directory-changed events
ChangedAt ==
  {i \in 1..Len(out.events) : out.events[i].name \in {"file-changed", "directory-changed"}}

\* the number of *-changed events the last call emitted for q
ChangedCount(q) == Cardinality({i \in ChangedAt : out.events[i].path = q})

\* one *-changed event for the root and one for each touched descendant,
\* all with the action of the call
OneChangedEventEach ==
  /\ ChangedCount(BatchRoot) = 1
  /\ \A q \in AffectedDescendants : ChangedCount(q) = 1
  /\ \A i \in ChangedAt : out.events[i].change[1].action = CallAction

\* no *-changed event for a path the call left as it was
NoEventForUntouched ==
  \A i \in ChangedAt :
    out.events[i].path = BatchRoot \/ out.events[i].path \in AffectedDescendants

\* C20: a directory-scoped rmdir, copy or move emits exactly one *-changed
\* event for the root path and exactly one for each descendant it touched,
\* all with the action of the call, and none for a path it did not create,
\* delete or rename, such as an entry already under the copy destination.
C20_OneChangedEventPerTouchedPath ==
  DirectoryScoped => OneChangedEventEach /\ NoEventForUntouched

\* C20 without the statement about untouched paths: one event for the root
\* and for each touched descendant, no path with two, all with the action
C20_AtMostOneEventPerPath ==
  DirectoryScoped =>
    /\ OneChangedEventEach
    /\ \A q \in StoredPaths(pre) \cup StoredPaths(idb) : ChangedCount(q) <= 1

\* 'a' with a file and a subdirectory was copied to the new directory 'b':
\* one event for 'b' and one for each copy
C20_Witness ==
  /\ DirectoryScoped /\ call.op = "copy" /\ call.recursive
  /\ CallPath = PathA /\ CallDest = PathB
  /\ RecordOf(pre, PathB) = <<>>
  /\ {PathBX, PathBS} \subseteq AffectedDescendants
  /\ OneChangedEventEach
  /\ NoEventForUntouched

\* the empty directory 'a' was copied to the directory 'b', which held the
\* file 'b/x.t': a file-changed event with action 'added' was emitted for
\* 'b/x.t', which the copy left as it was
C20_EventForExistingEntry ==
  /\ DirectoryScoped /\ call.op = "copy"
  /\ CallPath = PathA /\ CallDest = PathB
  /\ ~IsLive(pre, PathAX)
  /\ IsLiveFile(pre, PathBX)
  /\ idb.db[PathBX] = pre.db[PathBX]
  /\ ChangedCount(PathBX) = 1

--------------------------------------------------------------------------
(* C21 *)

\* the change records the last call emitted: the ones of its *-changed
\* events and the ones of its paths-changed event
ChangeRecords ==
  {out.events[i].change[1] : i \in ChangedAt}
    \cup UNION {{out.events[i].changes[j] : j \in 1..Len(out.events[i].changes)} :
                  i \in PathsChangedAt}

\* the stat the record carries is what stat(path) returns now
StatIsPostState(ch) ==
  LET now == FM_stat(idb, ch.path, ReadEnv)
  IN /\ now.err = NoErr
     /\ now.val # <<>>
     /\ ch.stat # <<>>
     /\ ch.stat[1].path = ch.path
     /\ ch.stat[1].path = now.val[1].path
     /\ ch.stat[1].isDirectory = now.val[1].isDirectory
     /\ ch.stat[1].isFile = now.val[1].isFile
     /\ ch.stat[1].size = now.val[1].size

\* C21: in every change event with action added, modified or renamed the
\* stat is the post-state of the event's path: the path, kind and size that
\* stat(path) returns right after the call; after an overwrite with a payload
\* of another length the size is the new length.
C21_StatIsPostState ==
  (MutatingCall /\ out.err = NoErr) =>
    \A ch \in ChangeRecords :
      ch.action \in {"added", "modified", "renamed"} => StatIsPostState(ch)

\* C21 for the calls that stat the path after they changed it: mkdir, move,
\* and the writeFile that creates the file
C21_FreshStatIsPostState ==
  (MutatingCall /\ out.err = NoErr /\ call.op # "copy") =>
    \A ch \in ChangeRecords :
      ch.action \in {"added", "renamed"} => StatIsPostState(ch)

\* writeFile created 'a/x.t' and the event carries the stat of the new file
C21_Witness ==
  /\ call.op = "writeFile" /\ out.err = NoErr
  /\ CallPath = PathAX
  /\ ~IsLive(pre, PathAX)
  /\ ChangeRecords # {}
  /\ \A ch \in ChangeRecords : ch.action = "added" /\ StatIsPostState(ch)
  /\ call.content = [type |-> "buffer", value |-> BytesHi]
  /\ \E ch \in ChangeRecords : ch.stat[1].size = Len(BytesHi)

\* writeFile overwrote 'a/x.t' with a payload of another length and the
\* event carries the size the file had before
C21_OverwriteCarriesOldSize ==
  /\ call.op = "writeFile" /\ out.err = NoErr
  /\ CallPath = PathAX
  /\ IsLiveFile(pre, PathAX)
  /\ pre.db[PathAX].size # idb.db[PathAX].size
  /\ \A ch \in ChangeRecords :
       ch.action = "modified" /\ ch.stat[1].size = pre.db[PathAX].size

\* 'a' was copied to 'b' and the event for 'b' carries the stat of 'a'
C21_CopyCarriesSourceStat ==
  /\ call.op = "copy" /\ out.err = NoErr
  /\ CallPath = PathA /\ CallDest = PathB
  /\ \E ch \in ChangeRecords : ch.path = PathB /\ ch.stat[1].path = PathA

--------------------------------------------------------------------------
(* C22 *)

SpecificNames ==
  {"file-added", "file-deleted", "file-renamed",
   "directory-added", "directory-deleted", "directory-renamed"}

\* the positions of the specific events of the last call
SpecificAt == {i \in 1..Len(out.events) : out.events[i].name \in SpecificNames}

\* the name of the event derived from a *-changed event: "" for none
DerivedName(e) ==
  LET kind == IF e.name = "file-changed" THEN "file" ELSE "directory"
      action == e.change[1].action
  IN CASE action = "added"   -> kind \o "-added"
       [] action = "deleted" -> kind \o "-deleted"
       [] action = "renamed" -> kind \o "-renamed"
       [] OTHER              -> ""

\* the event at j is the one derived from the *-changed event at i
DerivedFrom(j, i) ==
  /\ out.events[j].name = DerivedName(out.events[i])
  /\ out.events[j].path = out.events[i].path
  /\ out.events[j].oldPath =
       (IF out.events[i].change[1].action = "renamed"
          THEN ChangeOldPath(out.events[i].change[1]) ELSE <<>>)

\* C22: every file-changed (directory-changed) event with action added,
\* deleted or renamed is followed at once by exactly one file-added,
\* file-deleted or file-renamed (directory-added, -deleted, -renamed) event
\* for the same path, renamed with the old path of the record; action
\* modified derives no event; no specific event comes without its *-changed
\* event right before it.
C22_SpecificEventsDerived ==
  /\ \A i \in ChangedAt :
       IF DerivedName(out.events[i]) = ""
         THEN (i + 1) \notin SpecificAt
       ELSE (i + 1) \in SpecificAt /\ DerivedFrom(i + 1, i)
  /\ \A j \in SpecificAt : (j - 1) \in ChangedAt /\ DerivedFrom(j, j - 1)

\* 'a' with the file 'a/x.t' was moved to 'b': file-renamed for 'b/x.t' with
\* old path 'a/x.t' follows its file-changed, directory-renamed for 'b' with
\* old path 'a' follows its directory-changed
C22_Witness ==
  /\ call.op = "move" /\ out.err = NoErr
  /\ CallPath = PathA /\ CallDest = PathB
  /\ \E i \in ChangedAt :
       /\ out.events[i].name = "file-changed"
       /\ out.events[i].path = PathBX
       /\ out.events[i + 1] = EvSpecific("file-renamed", PathBX, <<PathAX>>)
  /\ \E i \in ChangedAt :
       /\ out.events[i].name = "directory-changed"
       /\ out.events[i + 1] = EvSpecific("directory-renamed", PathB, <<PathA>>)

\* an overwrite emitted file-changed with action modified and nothing derived
C22_ModifiedDerivesNothing ==
  /\ call.op = "writeFile" /\ out.err = NoErr
  /\ IsLiveFile(pre, CallPath)
  /\ Len(out.events) = 2
  /\ out.events[1].name = "file-changed"
  /\ out.events[1].change[1].action = "modified"
  /\ out.events[2].name = "paths-changed"

--------------------------------------------------------------------------
(* C23 *)

\* the keys of a listing, as a set
KeySet(m) == {m[i][1] : i \in 1..Len(m)}

\* the live records filed under p
LiveWithParent(S, p) == {q \in StoredPaths(S) : IsLive(S, q) /\ S.db[q].parentPath = p}

\* q is one segment below p
DirectChild(q, p) == q # p /\ stripEnds(dirnameOf(q)) = p

\* list(p) of the adaptor is the live records filed under p, each once, with
\* its own stat, and each of them is one segment below p
BackendListExact(S, p) ==
  LET r == Adaptor_list(S, p, ReadEnv)
  IN /\ r.err = NoErr
     /\ r.S = S
     /\ KeySet(r.val) = LiveWithParent(S, p)
     /\ Len(r.val) = Cardinality(LiveWithParent(S, p))
     /\ \A i \in 1..Len(r.val) :
          /\ r.val[i][2] = IDB_convertFileStat(S.db[r.val[i][1]])
          /\ r.val[i][1] = p \/ DirectChild(r.val[i][1], p)

\* list(p) of the orchestrator is the same without p
OrchestratorListExact(S, p) ==
  LET r == FM_list(S, p, FALSE, ReadEnv)
  IN /\ r.err = NoErr
     /\ KeySet(r.val) = LiveWithParent(S, p) \ {p}

\* C23: list(p) of the record-store backend returns exactly the live records
\* whose parentPath is p: no grandchildren, no tombstoned records, no record
\* of another directory; list(p) of the orchestrator never contains p.
C23_ListIsDirectLiveChildren ==
  idb.open => \A p \in AllPaths : BackendListExact(idb, p) /\ OrchestratorListExact(idb, p)

\* 'a' holds a tombstoned file and a subdirectory with a file: list('a') is
\* the subdirectory only
C23_Witness ==
  /\ idb.open
  /\ IsTombstone(idb, PathAX)
  /\ idb.db[PathAX].parentPath = PathA
  /\ IsLiveDirectory(idb, PathAS)
  /\ IsLiveFile(idb, PathASY)
  /\ KeySet(Adaptor_list(idb, PathA, ReadEnv).val) = {PathAS}
  /\ BackendListExact(idb, PathA)

\* the root directory has a record of its own, which the adaptor lists under
\* the root and the orchestrator leaves out
C23_RootListedByBackendOnly ==
  /\ idb.open
  /\ IsLive(idb, RootPath)
  /\ RootPath \in KeySet(Adaptor_list(idb, RootPath, ReadEnv).val)
  /\ RootPath \notin KeySet(FM_list(idb, RootPath, FALSE, ReadEnv).val)

--------------------------------------------------------------------------
(* C24 *)

\* the live records at any depth below p
LiveBelow(S, p) == {q \in StoredPaths(S) : IsLive(S, q) /\ IsProperPrefixPath(p, q)}

\* a directory comes before everything below it
ParentsFirst(m) ==
  \A i, j \in 1..Len(m) :
    (m[i][2].isDirectory /\ IsProperPrefixPath(m[i][1], m[j][1])) => i < j

\* list(p, true) is everything live below p, directories before their content
RecursiveListExact(S, p) ==
  LET r == FM_list(S, p, TRUE, ReadEnv)
  IN /\ r.err = NoErr
     /\ KeySet(r.val) = LiveBelow(S, p)
     /\ ParentsFirst(r.val)

\* C24: list(p, true) of the orchestrator returns the whole subtree: its keys
\* are all the live paths below p, at every depth, in every state reached
\* through orchestrator calls, and each directory key comes before the keys
\* of its own descendants.
C24_RecursiveListIsSubtree ==
  idb.open => \A p \in AllPaths : RecursiveListExact(idb, p)

\* C24 where no live record is filed under a file or under a missing
\* directory
C24_RecursiveListOfWellFormedTree ==
  (idb.open /\ WellFormed(idb)) => \A p \in AllPaths : RecursiveListExact(idb, p)

\* list('a', true) returned 'a/x.t', 'a/s' and 'a/s/y.t'
C24_Witness ==
  /\ call.op = "list" /\ call.recursive /\ out.err = NoErr
  /\ CallPath = PathA
  /\ WellFormed(idb)
  /\ KeySet(out.val) = {PathAX, PathAS, PathASY}
  /\ KeySet(out.val) = LiveBelow(idb, PathA)
  /\ ParentsFirst(out.val)

\* the file 'a/x.t/y.t' was written under the file 'a/x.t', and
\* list('a', true) does not return it
C24_FileUnderFileNotListed ==
  /\ call.op = "list" /\ call.recursive /\ out.err = NoErr
  /\ CallPath = PathA
  /\ IsLiveFile(idb, PathAX)
  /\ IsLiveFile(idb, PathAXY)
  /\ PathAXY \notin KeySet(out.val)

--------------------------------------------------------------------------
(* C25 *)

\* the directories the cascade is started on
CascadeRoots == {PathA, PathAS, PathB, RootPath}

\* the request that is rejected while the cascade runs: none, or the first
\* one for some path, which stops the cascade where it then is
CascadeFaults == {<<>>} \cup {<<q>> : q \in AllPaths}

\* where rmdir(d) of the adaptor leaves the store when the request f fails
AfterCascade(S, d, f) ==
  Adaptor_rmdir(S, d, [now |-> clock + 1, onStale |-> "data", fault |-> f]).S

\* d carries a deletion marker only if all that was live below d does
TombstonedLast(S, T, d) ==
  IsTombstone(T, d) => \A q \in LiveBelow(S, d) : IsTombstone(T, q)

\* C25: rmdir(d) of the record-store backend tombstones d last: wherever the
\* cascade stops, and when it ends, the record of d carries a deletion
\* marker only if every record that was a live descendant of d when rmdir
\* started carries one.
C25_RmdirTombstonesRootLast ==
  idb.open =>
    \A d \in CascadeRoots, f \in CascadeFaults :
      IsLiveDirectory(idb, d) => TombstonedLast(idb, AfterCascade(idb, d, f), d)

\* C25 where no live record is filed under a file or a missing directory
C25_RmdirOfWellFormedTree ==
  (idb.open /\ WellFormed(idb)) =>
    \A d \in CascadeRoots, f \in CascadeFaults :
      IsLiveDirectory(idb, d) => TombstonedLast(idb, AfterCascade(idb, d, f), d)

\* rmdir('a') stopped at 'a/s/y.t': 'a/s' and 'a' are still live; and it
\* ran to its end: 'a' and all below it are tombstoned
C25_Witness ==
  /\ idb.open /\ WellFormed(idb)
  /\ IsLiveFile(idb, PathASY)
  /\ ~IsTombstone(AfterCascade(idb, PathA, <<PathASY>>), PathA)
  /\ ~IsTombstone(AfterCascade(idb, PathA, <<PathASY>>), PathAS)
  /\ IsTombstone(AfterCascade(idb, PathA, <<>>), PathA)
  /\ IsTombstone(AfterCascade(idb, PathA, <<>>), PathASY)

\* rmdir('a') tombstoned 'a' and the file 'a/x.t', and the file 'a/x.t/y.t'
\* filed under that file is still live
C25_LiveRecordLeftBelow ==
  /\ idb.open
  /\ IsLiveFile(idb, PathAX) /\ IsLiveFile(idb, PathAXY)
  /\ IsTombstone(AfterCascade(idb, PathA, <<>>), PathA)
  /\ IsLive(AfterCascade(idb, PathA, <<>>), PathAXY)

--------------------------------------------------------------------------
(* C26 *)

\* destinations whose last segment has an extension and no separator after
FileShapedPaths == {PathY, PathBX, <<"b", "/", "y.t">>}

\* what the backend stores, by its own keys
StoreOf(S) == IF S.type = "indexed-db" THEN S.db ELSE S.fs

KeyOf(S, q) == IF S.type = "indexed-db" THEN q ELSE LocOf(q)

\* the keys whose entry is not the same in S and in T
ChangedKeys(S, T) ==
  {k \in DOMAIN StoreOf(S) \cup DOMAIN StoreOf(T) :
     \/ k \notin DOMAIN StoreOf(S)
     \/ k \notin DOMAIN StoreOf(T)
     \/ StoreOf(S)[k] # StoreOf(T)[k]}

IsDirectoryIn(S, q) ==
  IF S.type = "indexed-db" THEN IsLiveDirectory(S, q) ELSE NativeIsDirectory(S.fs, LocOf(q))

ExistsIn(S, q) ==
  IF S.type = "indexed-db" THEN IsLive(S, q) ELSE KeyOf(S, q) \in DOMAIN S.fs

\* what is in the directory s, at any depth
EntriesBelow(S, s) == {q \in AllPaths : IsProperPrefixPath(s, q) /\ ExistsIn(S, q)}

\* where a copy of s to d would put the entry q of s: below the directory
\* of d, or below d
CopyPlaces(q, s, d) == {Rebase(q, s, stripEnds(dirnameOf(d))), Rebase(q, s, d)}

\* copy(s, d) is refused, and no entry of s was put where a copy puts it
CopyToFileRefused(S, s, d, recursive) ==
  LET r == FM_copy(S, s, d, recursive, ReadEnv)
  IN /\ r.err = "Cannot copy a directory to a file."
     /\ r.events = <<>>
     /\ \A q \in EntriesBelow(S, s) :
          \A c \in CopyPlaces(q, s, d) : KeyOf(S, c) \notin ChangedKeys(S, r.S)
     /\ \A q \in EntriesBelow(S, s) \cup {s} : KeyOf(S, q) \notin ChangedKeys(S, r.S)

\* C26: copy(s, d) of a directory s to a d that is not directory-shaped (its
\* last segment has an extension and no separator follows) fails with
\* 'Cannot copy a directory to a file.' and copies no file or subdirectory
\* of s.
C26_DirectoryToFileRefused ==
  \A S \in {idb, fsa} :
    (Initialized(S) /\ IsDirectoryIn(S, PathA)) =>
      \A d \in FileShapedPaths, recursive \in BOOLEAN :
        CopyToFileRefused(S, PathA, d, recursive)

\* C26 on the IndexedDB instance
C26_IdbDirectoryToFileRefused ==
  (Initialized(idb) /\ IsDirectoryIn(idb, PathA)) =>
    \A d \in FileShapedPaths, recursive \in BOOLEAN :
      CopyToFileRefused(idb, PathA, d, recursive)

\* 'a' holds a file on both instances; copy('a', 'b/x.t') is refused on both
\* and leaves the new directory 'b' behind
C26_Witness ==
  /\ Initialized(idb) /\ Initialized(fsa)
  /\ IsLiveFile(idb, PathAX) /\ NativeIsFile(fsa.fs, LocOf(PathAX))
  /\ CopyToFileRefused(idb, PathA, PathBX, TRUE)
  /\ CopyToFileRefused(fsa, PathA, PathBX, TRUE)
  /\ IsLiveDirectory(FM_copy(idb, PathA, PathBX, TRUE, ReadEnv).S, PathB)
  /\ ~IsLive(FM_copy(idb, PathA, PathBX, TRUE, ReadEnv).S, PathBX)

\* on the File System Access instance copy('a', 'y.t') fails with the
\* TypeError of making a directory with the empty name
C26_FsaTopLevelFailsOtherwise ==
  /\ Initialized(fsa)
  /\ NativeIsDirectory(fsa.fs, LocOf(PathA))
  /\ FM_copy(fsa, PathA, PathY, TRUE, ReadEnv).err = "TypeError"

--------------------------------------------------------------------------
(* C27 *)

\* the handle cached under p is the handle of the entry at p
CachedHandleIsOwn(S, p) ==
  /\ S.pathCache[p].loc = LocOf(p)
  /\ LocOf(p) \in DOMAIN S.fs
  /\ S.pathCache[p].kind = S.fs[LocOf(p)].kind

\* C27: in every reachable state of the File System Access backend every
\* entry pathCache[p] is the handle of the entry at the path p itself (same
\* name, same kind), never the handle of the parent of p or of another path,
\* and there is no entry for a path that does not exist.
C27_HandleCacheHoldsOwnHandles ==
  \A p \in DOMAIN fsa.pathCache : CachedHandleIsOwn(fsa, p)

\* stat('a/x.t') of an existing file cached the handle of that file
C27_Witness ==
  /\ call.op = "stat" /\ outF.err = NoErr /\ outF.val # <<>>
  /\ CallPath = PathAX
  /\ PathAX \notin DOMAIN preF.pathCache
  /\ PathAX \in DOMAIN fsa.pathCache
  /\ CachedHandleIsOwn(fsa, PathAX)
  /\ fsa.pathCache[PathAX].kind = "file"

\* after writeFile('a/x.t') the cache holds, under 'a/x.t', the handle of
\* the directory 'a'
C27_ParentCachedUnderChild ==
  /\ call.op = "writeFile" /\ outF.err = NoErr
  /\ CallPath = PathAX
  /\ NativeIsFile(fsa.fs, LocOf(PathAX))
  /\ PathAX \in DOMAIN fsa.pathCache
  /\ fsa.pathCache[PathAX].loc = LocOf(PathA)
  /\ fsa.pathCache[PathAX].kind = "directory"

\* after stat of a path that does not exist the cache holds an entry for it
C27_AbsentPathCached ==
  /\ call.op = "stat" /\ outF.err = NoErr /\ outF.val = <<>>
  /\ LocOf(CallPath) \notin DOMAIN fsa.fs
  /\ CallPath \in DOMAIN fsa.pathCache

--------------------------------------------------------------------------
(* C28 *)

\* the paths that do not exist on the File System Access instance
AbsentPaths(S) == {p \in AllPaths \ {RootPath} : ~ExistsIn(S, p)}

StatIsNull(r) == r.err = NoErr /\ r.val = <<>>

\* stat(p), and stat(p) again with nothing in between, both return null
StatsNullTwice(S, p) ==
  LET first == Adaptor_stat(S, p, ReadEnv)
      second == Adaptor_stat(first.S, p, LaterEnv)
  IN StatIsNull(first) /\ StatIsNull(second)

\* after the adaptor's deleteFile(p) of a file, stat(p) is null, twice
NullAfterDeleteFile(S, p) ==
  LET d == Adaptor_deleteFile(S, p, ReadEnv)
  IN (NativeIsFile(S.fs, LocOf(p)) /\ d.err = NoErr) => StatsNullTwice(d.S, p)

\* after the adaptor's rmdir(q), stat of q and of all that was below q is
\* null, twice
NullAfterRmdir(S, q) ==
  LET r == Adaptor_rmdir(S, q, ReadEnv)
  IN (IsDirectoryIn(S, q) /\ r.err = NoErr) =>
       \A p \in EntriesBelow(S, q) \cup {q} : StatsNullTwice(r.S, p)

\* C28: on the File System Access backend stat(p) of a path that does not
\* exist returns null on every call: the first one, a repeated one with no
\* mutation in between, and one after deleteFile(p) or after rmdir of an
\* ancestor; it never returns a stat and never raises for not-found.
C28_AbsentPathStatsNull ==
  Initialized(fsa) =>
    /\ \A p \in AbsentPaths(fsa) : StatsNullTwice(fsa, p)
    /\ \A p \in AllPaths \ {RootPath} : NullAfterDeleteFile(fsa, p) /\ NullAfterRmdir(fsa, p)

\* C28 for the first stat of a path the handle cache has no entry for, below
\* no file
C28_FirstStatOfAbsentPathIsNull ==
  Initialized(fsa) =>
    \A p \in AbsentPaths(fsa) :
      (p \notin DOMAIN fsa.pathCache /\ ~FileOnTheWay(fsa, p))
        => StatIsNull(Adaptor_stat(fsa, p, ReadEnv))

\* the adaptor's deleteFile('a/x.t') removes the file, and the next stat of
\* it is null
C28_Witness ==
  /\ Initialized(fsa)
  /\ NativeIsFile(fsa.fs, LocOf(PathAX))
  /\ LET d == Adaptor_deleteFile(fsa, PathAX, ReadEnv)
     IN /\ d.err = NoErr
        /\ ~ExistsIn(d.S, PathAX)
        /\ StatIsNull(Adaptor_stat(d.S, PathAX, LaterEnv))

\* stat of an absent path is null the first time and a directory the second
C28_SecondStatFindsDirectory ==
  /\ Initialized(fsa)
  /\ PathA \in AbsentPaths(fsa)
  /\ StatIsNull(Adaptor_stat(fsa, PathA, ReadEnv))
  /\ LET second == Adaptor_stat(Adaptor_stat(fsa, PathA, ReadEnv).S, PathA, LaterEnv)
     IN second.err = NoErr /\ second.val # <<>> /\ second.val[1].isDirectory

\* stat of a path below a file raises
C28_StatBelowFileRaises ==
  /\ Initialized(fsa)
  /\ NativeIsFile(fsa.fs, LocOf(PathAX))
  /\ PathAXY \in AbsentPaths(fsa)
  /\ Adaptor_stat(fsa, PathAXY, ReadEnv).err \notin {NoErr, Hang}

--------------------------------------------------------------------------
(* C29 *)

\* files the File System Access store holds
FilePathsOf(S) == {p \in AllPaths : NativeIsFile(S.fs, LocOf(p))}

\* the content cache holds a File taken from p's entry that no longer agrees
\* with the entry
StalePayload(S, p) ==
  \E k \in DOMAIN S.fileCache :
    S.fileCache[k].loc = LocOf(p) /\ FileIsStale(S.fs, S.fileCache[k])

LaterEnvWith(onStale) == [now |-> clock + 2, onStale |-> onStale, fault |-> <<>>]

\* readFile(p) and stat(p), when they answer for a file, answer with data
ReadsFresh(S, p, data, onStale) ==
  LET r == Adaptor_readFile(S, p, LaterEnvWith(onStale))
      st == Adaptor_stat(S, p, LaterEnvWith(onStale))
  IN /\ r.err = NoErr
     /\ r.val = data
     /\ st.err = NoErr
     /\ st.val # <<>>
     /\ st.val[1].isFile
     /\ st.val[1].size = Len(data)

\* readFile(p) and stat(p) do not answer with the content or the size of old
ReadsNothingOf(S, p, old, data, onStale) ==
  LET r == Adaptor_readFile(S, p, LaterEnvWith(onStale))
      st == Adaptor_stat(S, p, LaterEnvWith(onStale))
  IN /\ r.err = NoErr /\ old # data => r.val # old
     /\ st.err = NoErr /\ st.val # <<>> /\ st.val[1].isFile /\ Len(old) # Len(data)
          => st.val[1].size # Len(old)

\* a second file holding data is written, the instance is destroyed and
\* initialized again, p is read, and the second file is copied onto p
CopiedOnto(S, p, data) ==
  Await([w \in {Adaptor_writeFile(S, PathY, data, ReadEnv)} |->
    IF w.err # NoErr THEN w
    ELSE Await([i \in {Adaptor_init(Adaptor_destroy(w.S).S, TRUE)} |->
      IF i.err # NoErr THEN i
      ELSE Await([r \in {Adaptor_readFile(i.S, p, ReadEnv)} |->
        IF r.err # NoErr THEN r
        ELSE Adaptor_copyFile(r.S, PathY, dirnameOf(p), <<basenameOf(p)>>,
                              LaterEnvWith("data"))])])])

WriteInvalidates(S, p, data) ==
  LET w == Adaptor_writeFile(S, p, data, ReadEnv)
  IN w.err = NoErr =>
       /\ ~StalePayload(w.S, p)
       /\ \A m \in StaleReads : ReadsNothingOf(w.S, p, S.fs[LocOf(p)].data, data, m)

DeleteInvalidates(S, p) ==
  LET d == Adaptor_deleteFile(S, p, ReadEnv)
  IN d.err = NoErr =>
       /\ ~StalePayload(d.S, p)
       /\ p \notin DOMAIN d.S.fileCache
       /\ \A m \in StaleReads : Adaptor_readFile(d.S, p, LaterEnvWith(m)).err # NoErr

CopyInvalidates(S, p, data) ==
  LET c == CopiedOnto(S, p, data)
  IN c.err = NoErr /\ S.fs[LocOf(p)].data # data =>
       /\ ~StalePayload(c.S, p)
       /\ \A m \in StaleReads : ReadsNothingOf(c.S, p, S.fs[LocOf(p)].data, data, m)

RmdirEmptiesCaches(S, q) ==
  LET r == Adaptor_rmdir(S, q, ReadEnv)
  IN r.err = NoErr => r.S.pathCache = <<>> /\ r.S.fileCache = <<>>

\* C29: on the File System Access backend, when writeFile(p), deleteFile(p) or
\* a copy onto p returns, the content cache holds no File taken from p's entry
\* before that mutation, and a later readFile(p) or stat(p) does not report the
\* earlier content or size; after rmdir both the content cache and the handle
\* cache are empty.
C29_ContentCacheInvalidated ==
  fsa.root =>
    /\ \A p \in FilePathsOf(fsa) :
         /\ \A data \in {BytesHi, BytesBad, StringE} :
              WriteInvalidates(fsa, p, data) /\ CopyInvalidates(fsa, p, data)
         /\ DeleteInvalidates(fsa, p)
    /\ \A q \in AllPaths \ {RootPath} : RmdirEmptiesCaches(fsa, q)

\* the part of C29 that holds: a writeFile(p) or deleteFile(p) that succeeds
\* leaves no File of an earlier content of p in the content cache and no
\* later read reports the earlier content, and a successful rmdir empties
\* both caches.
C29_WriteDeleteRmdirInvalidate ==
  fsa.root =>
    /\ \A p \in FilePathsOf(fsa) :
         /\ \A data \in {BytesHi, BytesBad, StringE} : WriteInvalidates(fsa, p, data)
         /\ DeleteInvalidates(fsa, p)
    /\ \A q \in AllPaths \ {RootPath} : RmdirEmptiesCaches(fsa, q)

\* a/x.t holds one content, a file of another content has been copied onto it
\* after it was read, and the content cache still holds the File read before
C29_Witness ==
  /\ fsa.root
  /\ PathAX \in FilePathsOf(fsa)
  /\ fsa.fs[LocOf(PathAX)].data = BytesHi
  /\ CopiedOnto(fsa, PathAX, BytesBad).err = NoErr
  /\ CopiedOnto(fsa, PathAX, BytesBad).S.fs[LocOf(PathAX)].data = BytesBad
  /\ StalePayload(CopiedOnto(fsa, PathAX, BytesBad).S, PathAX)

\* after that copy readFile('a/x.t') returns the content from before the copy
\* and stat('a/x.t') its size, or the read fails where the browser refuses a
\* File whose entry changed
C29_ReadAfterCopyIsStale ==
  /\ C29_Witness
  /\ LET S == CopiedOnto(fsa, PathAX, BytesBad).S
     IN /\ Adaptor_readFile(S, PathAX, LaterEnvWith("data")).err = NoErr
        /\ Adaptor_readFile(S, PathAX, LaterEnvWith("data")).val = BytesHi
        /\ Adaptor_stat(S, PathAX, LaterEnvWith("data")).val[1].size = Len(BytesHi)
        /\ Adaptor_readFile(S, PathAX, LaterEnvWith("error")).err = "NotReadableError"

\* a successful adaptor writeFile over a file that exists: its File was not in
\* the content cache
C29_OverwriteWitness ==
  /\ fsa.root
  /\ PathAX \in FilePathsOf(fsa)
  /\ fsa.fs[LocOf(PathAX)].data = BytesHi
  /\ Adaptor_writeFile(fsa, PathAX, BytesBad, ReadEnv).err = NoErr
  /\ ~StalePayload(Adaptor_writeFile(fsa, PathAX, BytesBad, ReadEnv).S, PathAX)

\* a file whose File is in the content cache: writeFile and deleteFile of it
\* take the cached file handle for the parent directory and raise TypeError
C29_CachedFileNotWritable ==
  /\ fsa.root
  /\ PathAX \in FilePathsOf(fsa)
  /\ PathAX \in DOMAIN fsa.fileCache
  /\ Adaptor_writeFile(fsa, PathAX, BytesBad, ReadEnv).err = "TypeError"
  /\ Adaptor_deleteFile(fsa, PathAX, ReadEnv).err = "TypeError"

\* a successful adaptor rmdir in a state whose caches were not empty
C29_RmdirWitness ==
  /\ fsa.root
  /\ fsa.pathCache # <<>>
  /\ fsa.fileCache # <<>>
  /\ Adaptor_rmdir(fsa, PathA, ReadEnv).err = NoErr

--------------------------------------------------------------------------
(* FSAAdaptor.init() step by step.  The instance is [type, root, handle,    *)
(* saved, pathCache, fileCache]: handle is the directory handle held in     *)
(* this.root, saved the handle of the record the side-channel store keeps   *)
(* for this ref, each <<>> when there is none.  sub is what the substrate   *)
(* answers during one init(): open is the outcome of indexedDB.open (which  *)
(* throws TypeError for a version of 0 where the browser follows the        *)
(* IndexedDB standard), fault the later store request that fails, query and *)
(* request the answers of queryPermission and requestPermission, picker the *)
(* outcome of showDirectoryPicker.                                          *)

Handles == {"h1", "h2"}

NoHandle == <<>>

OpenOutcomes == {NoErr, "TypeError", "Event"}

StoreFaults == {"", "transaction", "get", "put", "delete"}

Permissions == {"granted", "prompt", "denied"}

\* a handle picked, the picker dismissed, or the picker left open
PickerOutcomes == {<<h>> : h \in Handles} \cup {<<"AbortError">>, <<Hang>>}

Substrates ==
  [open : OpenOutcomes, fault : StoreFaults, query : Permissions,
   request : Permissions, picker : PickerOutcomes]

FSA_verifyHandle(query, request) ==
  IF query # "granted" /\ request # "granted" THEN "Permission denied" ELSE NoErr

\* showDirectoryPicker() and _saveHandleToDB(store, handle), then this.root = handle
FSA_init_pick(S, sub) ==
  IF sub.picker[1] \notin Handles THEN Throw(S, sub.picker[1])
  ELSE IF sub.fault = "put" THEN Throw(S, "Event")
  ELSE Ok([S EXCEPT !.saved = sub.picker, !.root = TRUE, !.handle = sub.picker], <<>>)

\* an init that holds the picked handle before it is saved
FSA_init_handshake_rootFirst(S, sub) ==
  IF sub.open # NoErr THEN Throw(S, sub.open)
  ELSE IF sub.fault = "transaction" THEN Throw(S, "InvalidStateError")
  ELSE IF sub.fault = "get" THEN Throw(S, "Event")
  ELSE IF S.saved = NoHandle
    THEN (IF sub.picker[1] \notin Handles THEN Throw(S, sub.picker[1])
          ELSE IF sub.fault = "put"
            THEN Throw([S EXCEPT !.root = TRUE, !.handle = sub.picker], "Event")
          ELSE Ok([S EXCEPT !.saved = sub.picker, !.root = TRUE, !.handle = sub.picker],
                  <<>>))
  ELSE IF FSA_verifyHandle(sub.query, sub.request) = NoErr
    THEN Ok([S EXCEPT !.root = TRUE, !.handle = S.saved], <<>>)
  ELSE IF sub.fault = "delete" THEN Throw(S, "Event")
  ELSE FSA_init_pick([S EXCEPT !.saved = NoHandle], sub)

FSA_init_handshake(S, sub) ==
  IF sub.open # NoErr THEN Throw(S, sub.open)
  ELSE IF sub.fault = "transaction" THEN Throw(S, "InvalidStateError")
  ELSE IF sub.fault = "get" THEN Throw(S, "Event")
  ELSE IF S.saved = NoHandle THEN FSA_init_pick(S, sub)
  ELSE IF FSA_verifyHandle(sub.query, sub.request) = NoErr
    THEN Ok([S EXCEPT !.root = TRUE, !.handle = S.saved], <<>>)
  ELSE IF sub.fault = "delete" THEN Throw(S, "Event")
  ELSE FSA_init_pick([S EXCEPT !.saved = NoHandle], sub)

\* the instance after construction, over a side-channel store with no record
\* for its ref
InitHandshake ==
  /\ idb = [type |-> "indexed-db", open |-> FALSE, db |-> <<>>]
  /\ fsa = [type |-> "fsa-api", root |-> FALSE, handle |-> NoHandle, saved |-> NoHandle,
            pathCache |-> <<>>, fileCache |-> <<>>]
  /\ clock = 0
  /\ call = [op |-> "new", sub |-> <<>>]
  /\ out = NoOut
  /\ outF = NoOut
  /\ pre = idb
  /\ preF = fsa

InitFsa ==
  /\ Returned
  /\ \E sub \in Substrates :
       \E r \in {FSA_init_handshake(fsa, sub)} :
         /\ call' = [op |-> "init", sub |-> <<sub>>]
         /\ fsa' = r.S
         /\ preF' = fsa
         /\ outF' = [err |-> r.err, val |-> r.val, events |-> <<>>]
         /\ UNCHANGED <<idb, clock, out, pre>>

DestroyFsa ==
  /\ Returned
  /\ \E r \in {FSA_destroy(fsa)} :
       /\ call' = [op |-> "destroy", sub |-> <<>>]
       /\ fsa' = [r.S EXCEPT !.handle = NoHandle]
       /\ preF' = fsa
       /\ outF' = [err |-> r.err, val |-> r.val, events |-> <<>>]
       /\ UNCHANGED <<idb, clock, out, pre>>

NextHandshake ==
  \/ InitFsa
  \/ DestroyFsa

SpecHandshake == InitHandshake /\ [][NextHandshake]_vars

--------------------------------------------------------------------------
(* C30 *)

\* the substrate's answers during the last call
CallSub == call.sub[1]

\* the last init() showed the directory picker
PickerShown ==
  /\ call.op = "init"
  /\ CallSub.open = NoErr
  /\ CallSub.fault \notin {"transaction", "get"}
  /\ \/ preF.saved = NoHandle
     \/ /\ FSA_verifyHandle(CallSub.query, CallSub.request) # NoErr
        /\ CallSub.fault # "delete"

\* the handle held is the stored one, found permitted, or the one just picked
RootObtained ==
  \/ /\ ~PickerShown
     /\ preF.saved # NoHandle
     /\ fsa.handle = preF.saved
     /\ "granted" \in {CallSub.query, CallSub.request}
  \/ /\ PickerShown
     /\ fsa.handle = CallSub.picker
     /\ CallSub.picker[1] \in Handles

BecameInitialized == call.op = "init" /\ ~FSA_isInitialized(preF) /\ FSA_isInitialized(fsa)

\* C30: on the File System Access backend isInitialized becomes true only in
\* an init() that obtained a root handle (the stored handle, its permission
\* granted, or a handle just granted through the picker) and with that same
\* handle in the record the side-channel store keeps for this ref; an init()
\* whose picker is dismissed or never answered does not succeed and leaves
\* isInitialized as it was, false on an instance that was not initialized.
C30_InitHandshake ==
  /\ BecameInitialized =>
       /\ outF.err = NoErr
       /\ RootObtained
       /\ fsa.handle # NoHandle
       /\ fsa.saved = fsa.handle
  /\ (PickerShown /\ CallSub.picker[1] \notin Handles) =>
       /\ outF.err # NoErr
       /\ FSA_isInitialized(fsa) = FSA_isInitialized(preF)
       /\ fsa.handle = preF.handle

\* an instance that was not initialized has become initialized with a handle
\* just picked, which the side-channel store now keeps
C30_Witness ==
  /\ BecameInitialized
  /\ PickerShown
  /\ fsa.handle = <<"h2">>
  /\ fsa.saved = <<"h2">>
  /\ outF.err = NoErr

\* after destroy(), init() found the stored handle permitted and holds it
\* without showing the picker
C30_StoredHandleWitness ==
  /\ BecameInitialized
  /\ ~PickerShown
  /\ preF.saved = <<"h1">>
  /\ fsa.handle = <<"h1">>
  /\ fsa.saved = <<"h1">>

\* the stored handle was refused, its record dropped, and the picker dismissed:
\* init() rejected and the instance is still not initialized
C30_AbandonedWitness ==
  /\ call.op = "init"
  /\ PickerShown
  /\ preF.saved # NoHandle
  /\ CallSub.picker = <<"AbortError">>
  /\ outF.err = "AbortError"
  /\ ~FSA_isInitialized(fsa)
  /\ fsa.saved = NoHandle

--------------------------------------------------------------------------
(* C31 *)

\* the last init() found a stored handle whose permission was neither granted
\* on query nor on request
PermissionRefused ==
  /\ call.op = "init"
  /\ CallSub.open = NoErr
  /\ CallSub.fault \notin {"transaction", "get"}
  /\ preF.saved # NoHandle
  /\ FSA_verifyHandle(CallSub.query, CallSub.request) # NoErr

\* C31: on the File System Access backend, when the permission query on the
\* stored root handle comes back not granted and the permission request is not
\* granted either, the init() in progress fails with the permission-denied
\* error and makes no further attempt to obtain a grant (the directory picker
\* is not shown).
C31_PermissionDeniedFails ==
  PermissionRefused =>
    /\ outF.err = "Permission denied"
    /\ ~PickerShown
    /\ ~BecameInitialized

\* the permission-denied error of _verifyHandle never reaches the caller of
\* init(): no call ends with it
C31_PermissionDeniedIsCaught == outF.err # "Permission denied"

\* a stored handle was refused on query and on request
C31_Witness ==
  /\ PermissionRefused
  /\ CallSub.query = "denied"
  /\ CallSub.request = "denied"
  /\ preF.saved = <<"h1">>

\* after the refusal the picker was shown, another directory was granted, and
\* init() resolved with it
C31_RefusalThenPickerGrant ==
  /\ C31_Witness
  /\ PickerShown
  /\ CallSub.picker = <<"h2">>
  /\ outF.err = NoErr
  /\ BecameInitialized
  /\ fsa.handle = <<"h2">>

--------------------------------------------------------------------------
(* Two callers of one FilesMultitool over IndexedDBAdaptor, each making one *)
(* mkdir call.  A call is suspended at each await of FilesMultitool.mkdir   *)
(* (adaptor.stat, adaptor.mkdir, adaptor.stat) and the other caller may run *)
(* in between.  call[c] is the call of caller c: its path, where it stands  *)
(* (pc) and the clock values at which it passed the existence check, made the *)
(* directory and returned; out[c] is what it returned and emitted.          *)

Callers == {1, 2}

RacePaths == {PathA, PathAS, PathB}

\* the stores the callers may find: empty, with directory 'a', and with the
\* directory 'a' made and removed again
RaceStores ==
  {<<>>, IDB_mkdir(<<>>, PathA, 0).S,
   IDB_rmdir(IDB_mkdir(<<>>, PathA, 0).S, PathA, 0, <<>>).S}

IdleCall == [op |-> "mkdir", path |-> <<>>, pc |-> "idle", checked |-> 0, made |-> 0,
             ended |-> 0]

RaceEnv == [now |-> clock, onStale |-> "data", fault |-> <<>>]

InitRace ==
  /\ \E db \in RaceStores : idb = [type |-> "indexed-db", open |-> TRUE, db |-> db]
  /\ fsa = [type |-> "fsa-api", root |-> FALSE, fs |-> <<>>, pathCache |-> <<>>,
            fileCache |-> <<>>]
  /\ clock = 1
  /\ call = [c \in Callers |-> IdleCall]
  /\ out = [c \in Callers |-> NoOut]
  /\ outF = NoOut
  /\ pre = idb
  /\ preF = fsa

\* path = cleanPath(path); stat = await adaptor.stat(path); if (stat) throw
RaceCheck ==
  \E c \in Callers, path \in RacePaths :
    /\ call[c].pc = "idle"
    /\ \E p \in {cleanPath(path)}, stat \in {Adaptor_stat(idb, cleanPath(path).val, RaceEnv)} :
         /\ call' = [call EXCEPT ![c] = [@ EXCEPT !.path = p.val, !.checked = clock,
                                                  !.ended = IF stat.val # <<>> THEN clock
                                                            ELSE 0,
                                                  !.pc = IF stat.val # <<>> THEN "done"
                                                         ELSE "make"]]
         /\ out' = [out EXCEPT ![c] = IF stat.val # <<>>
                                        THEN OutOf(FMThrow(idb, "Directory already exists."))
                                      ELSE @]
    /\ clock' = clock + 1
    /\ UNCHANGED <<idb, fsa, outF, pre, preF>>

\* a mkdir that looks again before it creates, in one step with the creation
RaceMake_rechecks ==
  \E c \in Callers :
    /\ call[c].pc = "make"
    /\ \E stat \in {Adaptor_stat(idb, call[c].path, RaceEnv)},
          made \in {Adaptor_mkdir(idb, call[c].path, RaceEnv)} :
         /\ idb' = IF stat.val # <<>> THEN idb ELSE made.S
         /\ call' = [call EXCEPT ![c] = [@ EXCEPT !.made = clock,
                                                  !.ended = IF stat.val # <<>> THEN clock
                                                            ELSE 0,
                                                  !.pc = IF stat.val # <<>> THEN "done"
                                                         ELSE "report"]]
         /\ out' = [out EXCEPT ![c] = IF stat.val # <<>>
                                        THEN OutOf(FMThrow(idb, "Directory already exists."))
                                      ELSE @]
    /\ clock' = clock + 1
    /\ UNCHANGED <<fsa, outF, pre, preF>>

\* await adaptor.mkdir(path)
RaceMake ==
  \E c \in Callers :
    /\ call[c].pc = "make"
    /\ \E made \in {Adaptor_mkdir(idb, call[c].path, RaceEnv)} :
         /\ idb' = made.S
         /\ call' = [call EXCEPT ![c] = [@ EXCEPT !.made = clock,
                                                  !.ended = IF made.err # NoErr THEN clock
                                                            ELSE 0,
                                                  !.pc = IF made.err # NoErr THEN "done"
                                                         ELSE "report"]]
         /\ out' = [out EXCEPT ![c] = IF made.err # NoErr
                                        THEN OutOf(FMThrow(made.S, made.err))
                                      ELSE @]
    /\ clock' = clock + 1
    /\ UNCHANGED <<fsa, outF, pre, preF>>

\* stat: await adaptor.stat(path), then the two emits
RaceReport ==
  \E c \in Callers :
    /\ call[c].pc = "report"
    /\ \E after \in {Adaptor_stat(idb, call[c].path, RaceEnv)} :
         \E change \in {[path |-> call[c].path, stat |-> after.val, action |-> "added",
                         renamed |-> <<>>]} :
           /\ call' = [call EXCEPT ![c] = [@ EXCEPT !.pc = "done", !.ended = clock]]
           /\ out' = [out EXCEPT ![c] =
                        OutOf(FMOk(after.S, <<>>,
                                   emitDirectoryChanged(call[c].path, change)
                                   \o <<EvPathsChanged(<<call[c].path>>, <<change>>)>>))]
    /\ clock' = clock + 1
    /\ UNCHANGED <<idb, fsa, outF, pre, preF>>

NextRace ==
  \/ RaceCheck
  \/ RaceMake
  \/ RaceReport

SpecRace == InitRace /\ [][NextRace]_vars

--------------------------------------------------------------------------
(* C32 *)

\* the call of caller c has returned without error and emitted
\* directory-added for its path
MadeAndAnnounced(c) ==
  /\ call[c].pc = "done"
  /\ out[c].err = NoErr
  /\ \E i \in 1..Len(out[c].events) :
       out[c].events[i].name = "directory-added" /\ out[c].events[i].path = call[c].path

BothDone == \A c \in Callers : call[c].pc = "done"

\* one call returned before the other began: the calls ran in a serial order
RanSerially ==
  \E c, d \in Callers : c # d /\ call[c].ended # 0 /\ call[c].ended < call[d].checked

\* each call passed its existence check before the other made the directory
BothCheckedFirst ==
  \A c, d \in Callers : c # d => call[c].made # 0 /\ call[c].checked < call[d].made

\* C32: two mkdir(p) calls of two callers on the same path p, absent at first.
\* When each passes its existence check before the other has created p, both
\* return without error and both emit directory-added for p; when the two calls
\* run one after the other, in either order, at most one of them does: the
\* interleaved outcome is that of no serial order.
C32_MkdirCheckThenActRace ==
  (BothDone /\ call[1].path = call[2].path) =>
    /\ BothCheckedFirst => \A c \in Callers : MadeAndAnnounced(c)
    /\ RanSerially => ~(\A c \in Callers : MadeAndAnnounced(c))

\* both callers made 'a', absent at first, each passing the check before the
\* other created it, and both returned without error having emitted
\* directory-added('a')
C32_Witness ==
  /\ BothDone
  /\ call[1].path = PathA
  /\ call[2].path = PathA
  /\ BothCheckedFirst
  /\ ~RanSerially
  /\ \A c \in Callers : MadeAndAnnounced(c)

\* the same two calls one after the other: the second is refused
C32_SerialWitness ==
  /\ BothDone
  /\ call[1].path = PathA
  /\ call[2].path = PathA
  /\ RanSerially
  /\ MadeAndAnnounced(1)
  /\ out[2].err = "Directory already exists."

--------------------------------------------------------------------------
(* C33 *)

\* the *-changed event for p is emitted, and before every *-changed event for
\* a path below p
BeforeOwnDescendants(p) ==
  \A i, j \in ChangedAt :
    (out.events[i].path = p /\ IsProperPrefixPath(p, out.events[j].path)) => i < j

\* some *-changed event of the call is for a path below p
HasEventBelow(p) == \E j \in ChangedAt : IsProperPrefixPath(p, out.events[j].path)

\* C33: within one rmdir, copy or move of a directory the *-changed events are
\* emitted parent before children: the directory-changed event of the root
\* path of the call before the *-changed event of any descendant, and the event
\* of each subdirectory before those of its own descendants.
C33_ParentEventsFirst ==
  DirectoryScoped =>
    \A i \in ChangedAt : BeforeOwnDescendants(out.events[i].path)

\* the part of C33 that holds: below the root path of the call, the event of
\* each subdirectory comes before those of its own descendants; the event of
\* the root path itself comes after the events of all its descendants.
C33_RootEventLast ==
  DirectoryScoped =>
    /\ \A i \in ChangedAt :
         out.events[i].path # BatchRoot => BeforeOwnDescendants(out.events[i].path)
    /\ \A i, j \in ChangedAt :
         (out.events[i].path = BatchRoot /\ IsProperPrefixPath(BatchRoot, out.events[j].path))
           => j < i

\* a recursive rmdir of 'a' that held 'a/s' and 'a/s/y.t': events for all three
C33_Witness ==
  /\ DirectoryScoped /\ call.op = "rmdir" /\ call.recursive
  /\ CallPath = PathA
  /\ ChangedCount(PathA) = 1
  /\ ChangedCount(PathAS) = 1
  /\ ChangedCount(PathASY) = 1

\* in that call directory-changed('a') is emitted after the events of 'a/s'
\* and 'a/s/y.t', and the event of 'a/s' before that of 'a/s/y.t'
C33_RootAfterDescendants ==
  /\ C33_Witness
  /\ \E i, j, k \in ChangedAt :
       /\ out.events[i].path = PathAS
       /\ out.events[j].path = PathASY
       /\ out.events[k].path = PathA
       /\ i < j /\ j < k

--------------------------------------------------------------------------
(* C34 *)

TraversingOps == {"rmdir", "copy", "move", "list"}

\* copy, move, rmdir and recursive list of the root path, called now, return
RootCallsReturn(S) ==
  /\ FM_rmdir(S, RootPath, TRUE, ReadEnv).err # Hang
  /\ FM_copy(S, RootPath, PathB, TRUE, ReadEnv).err # Hang
  /\ FM_move(S, RootPath, PathB, ReadEnv).err # Hang
  /\ FM_list(S, RootPath, TRUE, ReadEnv).err # Hang

\* C34: every orchestrator rmdir, copy, move and recursive list call returns
\* (with a result or an error) in every store state reachable through
\* orchestrator calls, states that hold a record for the root path "" included.
C34_TraversalsTerminate ==
  /\ call.op \in TraversingOps => out.err # Hang
  /\ idb.open => RootCallsReturn(idb)

\* the part of C34 that holds: a call that does not return is an rmdir, copy or
\* move whose source is the root path, made when the store holds a live
\* directory record for the root path; recursive list always returns.
C34_OnlyRootRecordTraversalsHang ==
  /\ (call.op \in TraversingOps /\ out.err = Hang) =>
       /\ call.op # "list"
       /\ CallPath = RootPath
       /\ IsLiveDirectory(pre, RootPath)
  /\ (idb.open /\ ~IsLiveDirectory(idb, RootPath)) => RootCallsReturn(idb)
  /\ idb.open => \A p \in ListPaths : FM_list(idb, p, TRUE, ReadEnv).err # Hang

\* the store holds a live directory record for the root path (made by a copy
\* whose destination is the root path or a top-level file-shaped path) and the
\* last call was a recursive rmdir of the root path
C34_Witness ==
  /\ call.op = "rmdir" /\ call.recursive
  /\ CallPath = RootPath
  /\ IsLiveDirectory(pre, RootPath)
  /\ out.err = Hang

\* in a state with that record, copy and move of the root path do not return
\* either, and the recursive list of the root path does
C34_CopyAndMoveOfRootHang ==
  /\ idb.open
  /\ IsLiveDirectory(idb, RootPath)
  /\ FM_copy(idb, RootPath, PathB, TRUE, ReadEnv).err = Hang
  /\ FM_move(idb, RootPath, PathB, ReadEnv).err = Hang
  /\ FM_list(idb, RootPath, TRUE, ReadEnv).err = NoErr

--------------------------------------------------------------------------
(* C35 *)

\* no record, live or tombstoned, is stored below the record of a file
NothingBelowFiles(S) ==
  \A q, a \in StoredPaths(S) : IsProperPrefixPath(a, q) => ~S.db[a].isFile

\* C35: on the IndexedDB backend, in every state reachable through
\* orchestrator calls of one caller, every live record whose parentPath is not
\* empty has a live directory record at its parentPath: no live entry sits
\* under a file, under a tombstoned directory, or under a path with no record.
C35_TreeWellFormed == idb.open => WellFormed(idb)

\* the part of C35 that holds: the tree is well-formed as long as nothing has
\* been stored below the record of a file.
C35_WellFormedUnlessBelowFile == (idb.open /\ NothingBelowFiles(idb)) => WellFormed(idb)

\* writeFile('a/x.t/y.t') returned without error while 'a/x.t' was a live file:
\* the live file 'a/x.t/y.t' has the live file 'a/x.t' as its parent
C35_Witness ==
  /\ call.op = "writeFile" /\ CallPath = PathAXY /\ out.err = NoErr
  /\ call.fault = <<>>
  /\ IsLiveFile(pre, PathAX)
  /\ IsLiveFile(idb, PathAXY)
  /\ IsLiveFile(idb, PathAX)
  /\ idb.db[PathAXY].parentPath = PathAX

\* after deleteFile('a/x.t') the live file 'a/x.t/y.t' sits under a tombstone
C35_LiveUnderTombstone ==
  /\ call.op = "deleteFile" /\ CallPath = PathAX /\ out.err = NoErr
  /\ IsLiveFile(idb, PathAXY)
  /\ IsTombstone(idb, PathAX)

--------------------------------------------------------------------------
(* C36 *)

\* the live files at or under s
FilesAtOrUnder(S, s) == {q \in StoredPaths(S) : IsPrefixPath(s, q) /\ IsLiveFile(S, q)}

\* where a move of s to d takes the entry q of s: a file s goes to d, or into d
\* when d is directory-shaped
MovedPlaces(q, s, d) ==
  IF q = s THEN {d, joinPath(d, basenameOf(s))} ELSE {Rebase(q, s, d)}

SameFile(S, q, T, r) == IsLiveFile(T, r) /\ T.db[r].content = S.db[q].content

\* every file live at or under s in S is live in T with the same content, where
\* it was or where the move to d takes it
NothingLost(S, T, s, d) ==
  \A q \in FilesAtOrUnder(S, s) :
    SameFile(S, q, T, q) \/ \E r \in MovedPlaces(q, s, d) : SameFile(S, q, T, r)

\* destinations inside the directory 'a'
InsidePaths == {PathAS, <<"a", "/", "b">>}

\* C36: no orchestrator move(s, d) loses data, whether it succeeds or fails and
\* also when d lies inside the directory s: every file that was live at or
\* under s before the call is live afterwards, with the same content, at its
\* original path or at its corresponding destination path.
C36_MoveLosesNothing ==
  /\ (call.op = "move" /\ pre.open) => NothingLost(pre, idb, CallPath, CallDest)
  /\ idb.open =>
       \A d \in InsidePaths : NothingLost(idb, FM_move(idb, PathA, d, ReadEnv).S, PathA, d)

\* the part of C36 that holds: a move whose destination lies outside the source
\* loses nothing, whether it succeeds or fails.
C36_MoveOutsideLosesNothing ==
  (call.op = "move" /\ pre.open /\ ~IsPrefixPath(CallPath, CallDest)) =>
    NothingLost(pre, idb, CallPath, CallDest)

\* 'a' holds the file 'a/x.t' and 'a/s' is absent: move('a', 'a/s') returns
\* with an error or without
C36_Witness ==
  /\ idb.open
  /\ IsLiveFile(idb, PathAX)
  /\ ~IsLive(idb, PathAS)
  /\ FM_move(idb, PathA, PathAS, ReadEnv).err # Hang

\* after that move the content of 'a/x.t' is live neither at 'a/x.t' nor at
\* 'a/s/x.t'
C36_MoveIntoItselfLosesFile ==
  /\ C36_Witness
  /\ LET T == FM_move(idb, PathA, PathAS, ReadEnv).S
     IN ~IsLiveFile(T, PathAX) /\ ~IsLiveFile(T, <<"a", "/", "s", "/", "x.t">>)

\* a move of the directory 'a' to 'b' that succeeded: the file of 'a/x.t' is
\* live at 'b/x.t' with the same content
C36_MovedOrKept ==
  /\ call.op = "move" /\ pre.open
  /\ CallPath = PathA /\ CallDest = PathB
  /\ IsLiveFile(pre, PathAX)
  /\ out.err = NoErr
  /\ SameFile(pre, PathAX, idb, PathBX)
  /\ ~IsLive(idb, PathAX)

--------------------------------------------------------------------------
(* C37 *)

\* what stat tells of q in S: nothing, a file or a directory
KindAt(S, q) ==
  IF ~IsLive(S, q) THEN "none" ELSE IF S.db[q].isDirectory THEN "directory" ELSE "file"

\* the paths whose stat result differs before and after the last call
StatChanged == {q \in StoredPaths(pre) \cup StoredPaths(idb) : KindAt(pre, q) # KindAt(idb, q)}

\* the paths listed by the paths-changed events of the last call
ReportedPaths ==
  UNION {{out.events[i].paths[j] : j \in 1..Len(out.events[i].paths)} : i \in PathsChangedAt}

DataCall == pre.open /\ call.op \notin {"new", "init", "destroy"}

\* C37: for every orchestrator call, each path whose stat result differs
\* between the state before and the state after the call (created, removed or
\* of another kind) is in the paths list of a paths-changed event the call
\* emitted, the ancestor directories that writeFile, copy and move create
\* included; a call that fails changes no stat result.
C37_EveryChangeReported ==
  DataCall =>
    /\ StatChanged \subseteq ReportedPaths
    /\ out.err # NoErr => StatChanged = {}

\* the part of C37 that holds: a call that returns without error reports the
\* path its events are about when the stat result of that path changed, and
\* stat, list and readFile change no stat result.
C37_NamedPathReported ==
  DataCall =>
    /\ (out.err = NoErr /\ BatchRoot \in StatChanged) => BatchRoot \in ReportedPaths
    /\ ~MutatingCall => StatChanged = {}

\* writeFile('a/x.t') on a store without 'a' created the directory 'a' and the
\* file 'a/x.t'
C37_Witness ==
  /\ DataCall
  /\ call.op = "writeFile" /\ CallPath = PathAX /\ out.err = NoErr
  /\ {PathA, PathAX} \subseteq StatChanged
  /\ KindAt(idb, PathA) = "directory"

\* that call listed 'a/x.t' and not 'a'
C37_AncestorNotReported ==
  /\ C37_Witness
  /\ PathAX \in ReportedPaths
  /\ PathA \notin ReportedPaths

\* a move of 'a' to 'b' removed 'a' and 'a/x.t' and lists neither of them
C37_MoveSourceNotReported ==
  /\ DataCall
  /\ call.op = "move" /\ CallPath = PathA /\ CallDest = PathB /\ out.err = NoErr
  /\ {PathA, PathAX} \subseteq StatChanged
  /\ ReportedPaths \cap {PathA, PathAX} = {}

\* a copy that was refused left a directory behind: the stat result of a path
\* changed in a call that failed
C37_FailedCallChangedStat ==
  /\ DataCall
  /\ call.op = "copy" /\ out.err # NoErr /\ call.fault = <<>>
  /\ StatChanged # {}

--------------------------------------------------------------------------
(* C38 *)

\* the kind an event speaks of, by its name
EventKind(e) ==
  IF SubSeq(e.name, 1, 5) = "file-" THEN "file" ELSE "directory"

\* the action an event speaks of
EventAction(e) ==
  IF e.change # <<>> THEN e.change[1].action
  ELSE CASE e.name \in {"file-added", "directory-added"}     -> "added"
         [] e.name \in {"file-deleted", "directory-deleted"} -> "deleted"
         [] OTHER                                            -> "renamed"

\* the path the entry was renamed from, <<>> when the event names none
EventOldPath(e) == IF e.change # <<>> THEN ChangeOldPath(e.change[1]) ELSE e.oldPath

\* the event e of the last call agrees with the store: an entry of its kind is
\* at its path, its record carries the stat of that path, and the entry it was
\* renamed from was of the same kind
EventConsistent(e) ==
  /\ EventAction(e) # "deleted" => KindAt(idb, e.path) = EventKind(e)
  /\ (e.change # <<>> /\ e.change[1].stat # <<>>) => e.change[1].stat[1].path = e.path
  /\ (EventAction(e) = "renamed" /\ EventOldPath(e) # <<>>) =>
       KindAt(pre, EventOldPath(e)[1]) = EventKind(e)

\* C38: a file-added, file-renamed or file-changed event that is not a deletion
\* is emitted only for a path at which a file exists after the call, a
\* directory-* event only for a path at which a directory exists; the stat of
\* the change record has the path of the event; and in a rename the entry that
\* was at oldPath was of the same kind as the entry at path.  This holds also
\* when a file is copied or moved to a directory-shaped destination.
C38_EventsMatchEntries ==
  (DataCall /\ out.err = NoErr) =>
    \A i \in ChangedAt \cup SpecificAt : EventConsistent(out.events[i])

\* the last call was a copy, or the move of a file
CopyOrFileMove == call.op = "copy" \/ (call.op = "move" /\ IsLiveFile(pre, CallPath))

\* the part of C38 that holds: the events of every call other than a copy and
\* the move of a file agree with the store in all three respects.
C38_EventsMatchUnlessCopied ==
  (DataCall /\ out.err = NoErr /\ ~CopyOrFileMove) =>
    \A i \in ChangedAt \cup SpecificAt : EventConsistent(out.events[i])

\* the file 'a/x.t' was copied to the directory-shaped destination 'b'
C38_Witness ==
  /\ DataCall /\ out.err = NoErr
  /\ call.op = "copy" /\ CallPath = PathAX /\ CallDest = PathB
  /\ IsLiveFile(pre, PathAX)
  /\ IsLiveFile(idb, PathBX)

\* that copy emitted file-added for 'b', where a directory is, with the stat of
\* 'a/x.t' in its record
C38_FileEventAtDirectory ==
  /\ C38_Witness
  /\ KindAt(idb, PathB) = "directory"
  /\ \E i \in SpecificAt : out.events[i].name = "file-added" /\ out.events[i].path = PathB
  /\ \E i \in ChangedAt :
       /\ out.events[i].name = "file-changed" /\ out.events[i].path = PathB
       /\ out.events[i].change[1].stat[1].path = PathAX

\* the file 'a/x.t' was moved to the directory-shaped destination 'b': the
\* call emitted directory-renamed for 'b' with the file 'a/x.t' as oldPath
C38_FileRenamedToDirectory ==
  /\ DataCall /\ out.err = NoErr
  /\ call.op = "move" /\ CallPath = PathAX /\ CallDest = PathB
  /\ KindAt(pre, PathAX) = "file"
  /\ KindAt(idb, PathB) = "directory"
  /\ \E i \in SpecificAt :
       /\ out.events[i].name = "directory-renamed"
       /\ out.events[i].path = PathB
       /\ out.events[i].oldPath = <<PathAX>>

====
